---- MODULE Spec2Model ----
(***************************************************************************)
(* A model of the J1939 socket layer, net/can/j1939/socket.c: the endpoint *)
(* record (struct j1939_sock), its bind/connect/release lifecycle against  *)
(* the per-interface endpoint list, the inbound filter and fan-out, and    *)
(* the outbound single-frame and segmented send.                           *)
(*                                                                         *)
(* Return values are records [err, n]: err = "OK" with the returned count  *)
(* n, or the name of the errno the handler returns.                        *)
(***************************************************************************)
EXTENDS Integers, Sequences, FiniteSets, Bags, TLC

VARIABLES
    jsk,        \* Socks -> struct j1939_sock (with the struct sock bits used here)
    socks,      \* CAN ifindex -> priv->j1939_socks, the endpoint list of the interface
    ecu,        \* Socks -> the local-ECU claims taken and dropped on its behalf
    rx_kref,    \* CAN ifindex -> j1939_netdev_start calls minus j1939_netdev_stop calls
    nfault,     \* number of injected failures (claim, allocation, engine) and netdev events so far
    rcvq,       \* Socks -> sk_receive_queue, the clones queued for the reader
    engine,     \* what the transport engine holds: its sessions
    thr,        \* a filter install and a filter evaluation in progress, step by step
    last        \* the last handler that ran: its socket, argument, result and pre-state

vars == <<jsk, socks, ecu, rx_kref, nfault, rcvq, engine, thr, last>>

(***************************************************************************)
(* Bounds of the model.                                                    *)
(***************************************************************************)
\* failures and netdev events injected in one behaviour
MaxFaults == 1
\* frames a receive queue holds before sock_queue_rcv_skb refuses the next
MaxRcvQ == 1

\* frames that the specification of the inbound order fans out
MaxFrames == 3
\* entries of a filter list a caller installs
MaxFilters == 1
\* sessions the transport engine holds at a time
MaxEngine == 2

Socks == {1, 2}

(***************************************************************************)
(* Constants of the J1939 headers, which are not part of socket.c.         *)
(***************************************************************************)
J1939_NO_ADDR == 254
J1939_BROADCAST_ADDR == 255
J1939_NO_NAME == 0
J1939_NO_PGN == 262143
J1939_PGN_MAX == 262143
J1939_PGN_PDU1_MAX == 61440
J1939_FILTER_MAX == 512

\* The network devices of the namespace: 1 and 2 are CAN devices, 3 is a
\* device of another type, every other index names no device.
CanDevs == {1, 2}
NetDevs == {1, 2, 3}

J1939_SOCK_BOUND == "BOUND"
J1939_SOCK_CONNECTED == "CONNECTED"
J1939_SOCK_PROMISC == "PROMISC"
J1939_SOCK_RECV_OWN == "RECV_OWN"
J1939_SOCK_ERRQUEUE == "ERRQUEUE"

OK(n) == [err |-> "OK", n |-> n]
Fail(e) == [err |-> e, n |-> 0]

(***************************************************************************)
(* The endpoint record after j1939_sk_init.                                *)
(***************************************************************************)
InitSock ==
    [ alive |-> TRUE,
      state |-> {},
      ifindex |-> 0,
      src_name |-> J1939_NO_NAME,
      sa |-> J1939_NO_ADDR,
      dst_name |-> J1939_NO_NAME,
      da |-> J1939_NO_ADDR,
      pgn |-> J1939_NO_PGN,
      pgn_rx_filter |-> J1939_NO_PGN,
      filters |-> << >>,
      nfilters |-> 0,
      etp_tx_complete_size |-> 0,
      etp_tx_done_size |-> 0,
      skb_pending |-> 0,
      sk_err |-> "0",
      sk_error_queue |-> << >>,
      sk_rcvbuf |-> MaxRcvQ,
      broadcast |-> FALSE ]

\* The record of a socket whose struct sock was orphaned and put by release:
\* nothing of it is left but the pending counter the transport engine still
\* decrements.
FreedSock(j) == [InitSock EXCEPT !.alive = FALSE, !.skb_pending = j.skb_pending]

j1939_pgn_is_valid(pgn) == pgn <= J1939_PGN_MAX

j1939_pgn_is_pdu1(pgn) == pgn < J1939_PGN_PDU1_MAX

j1939_pgn_is_clean_pdu(pgn) ==
    IF j1939_pgn_is_pdu1(pgn) THEN pgn % 256 = 0 ELSE TRUE

\* A struct sockaddr_can as the caller passes it: null for a NULL pointer,
\* short for a length below J1939_MIN_NAMELEN.
SockAddr(ifx, name, addr, pgn) ==
    [ null |-> FALSE, short |-> FALSE, can_family |-> "AF_CAN",
      can_ifindex |-> ifx, name |-> name, addr |-> addr, pgn |-> pgn ]

NullAddr == [SockAddr(0, 0, 0, 0) EXCEPT !.null = TRUE]

j1939_sk_sanity_check(addr) ==
    IF addr.null THEN "EDESTADDRREQ"
    ELSE IF addr.short THEN "EINVAL"
    ELSE IF addr.can_family # "AF_CAN" THEN "EINVAL"
    ELSE IF addr.can_ifindex = 0 THEN "ENODEV"
    ELSE IF j1939_pgn_is_valid(addr.pgn) /\ ~j1939_pgn_is_clean_pdu(addr.pgn)
         THEN "EINVAL"
    ELSE "0"

(***************************************************************************)
(* The local-ECU registry and the per-interface instance, as this layer    *)
(* uses them.  A claim is keyed by (ifindex, NAME, address); ecu[e].held   *)
(* is the bag of claims taken for endpoint e and not yet dropped, and      *)
(* ecu[e].over counts the drops that had no claim to drop.                 *)
(***************************************************************************)
EcuKey(ifx, name, sa) == <<ifx, name, sa>>

j1939_local_ecu_get(ec, e, key) ==
    [ec EXCEPT ![e].held = @ (+) SetToBag({key})]

j1939_local_ecu_put(ec, e, key) ==
    IF BagIn(key, ec[e].held)
    THEN [ec EXCEPT ![e].held = @ (-) SetToBag({key})]
    ELSE [ec EXCEPT ![e].over = @ + 1]

j1939_netdev_start(kref, ifx) == [kref EXCEPT ![ifx] = @ + 1]

j1939_netdev_stop(kref, ifx) == [kref EXCEPT ![ifx] = @ - 1]

list_add_tail(list, e) == Append(list, e)

list_del_init(list, e) == SelectSeq(list, LAMBDA x : x # e)

(***************************************************************************)
(* What a handler saw before it ran, kept in last.pre.                     *)
(***************************************************************************)
\* No SO_J1939_FILTER call and no j1939_sk_match_filter call is in progress.
\* wpc, rpc: the next step of the writer and of the reader; wfilters, wcount:
\* the writer's new array and count; rf, rn: the array and the count the
\* reader has read; rarr: whether the reader's array is the installed one
\* ("cur"), the one the writer is about to free ("old"), or freed.
\* lk: the threads that run a handler lock by lock.  pc is the thread's
\* next step, want the lock it waits for, held the locks it holds in the
\* order it took them.  rxseq: the number of frames whose fan-out was
\* counted (the specification of the inbound order numbers its frames).
Threads == {1, 2}

IdleThread ==
    [pc |-> "idle", op |-> "none", sk |-> 0, ifx |-> 0, arg |-> << >>,
     want |-> << >>, held |-> << >>]

ThrIdle ==
    [wpc |-> "idle", wsk |-> 0, wfilters |-> << >>, wcount |-> 0,
     rpc |-> "idle", rsk |-> 0, rf |-> << >>, rn |-> 0, rarr |-> "none",
     rskb |-> << >>,
     lk |-> [t \in Threads |-> IdleThread],
     rxseq |-> 0]

Snap ==
    [jsk |-> jsk, ecu |-> ecu, socks |-> socks, rx_kref |-> rx_kref,
     nfault |-> nfault, rcvq |-> rcvq, engine |-> engine]

\* The temporary references a handler holds: on the network device
\* (dev_get_by_index / dev_put) and on the interface's J1939 instance
\* (j1939_priv_get_by_ndev / j1939_priv_put).
NoRefs == [ndev |-> 0, priv |-> 0]

dev_get_by_index(r) == [r EXCEPT !.ndev = @ + 1]

dev_put(r) == [r EXCEPT !.ndev = @ - 1]

j1939_priv_get_by_ndev(r) == [r EXCEPT !.priv = @ + 1]

j1939_priv_put(r) == [r EXCEPT !.priv = @ - 1]

\* tx: the single frames the handler gave to j1939_send_one; refs: the
\* temporary references the handler took and had not put when it returned
RecordRefs(op, e, arg, ret, tx, refs) ==
    [op |-> op, sk |-> e, arg |-> arg, ret |-> ret, tx |-> tx, refs |-> refs,
     pre |-> Snap]

RecordTx(op, e, arg, ret, tx) == RecordRefs(op, e, arg, ret, tx, NoRefs)

Record(op, e, arg, ret) == RecordTx(op, e, arg, ret, << >>)

Init ==
    /\ jsk = [e \in Socks |-> InitSock]
    /\ socks = [i \in CanDevs |-> << >>]
    /\ ecu = [e \in Socks |-> [held |-> EmptyBag, over |-> 0]]
    /\ rx_kref = [i \in CanDevs |-> 0]
    /\ nfault = 0
    /\ rcvq = [e \in Socks |-> << >>]
    /\ engine = [sessions |-> << >>]
    /\ thr = ThrIdle
    /\ last = Record("init", 0, NullAddr, OK(0))

(***************************************************************************)
(* j1939_sk_bind                                                           *)
(***************************************************************************)
BindOtherIface_Never(j, addr) == FALSE

\* line 290: a re-bind to a different interface is refused
BindOtherIface(j, addr) == j.ifindex # addr.can_ifindex

BindAttaches_Always(j) == TRUE

\* line 325: only the first bind attaches the endpoint and sets BOUND
BindAttaches(j) == J1939_SOCK_BOUND \notin j.state

\* lines 312-316: the address the bind records
BindSetAddr(j, addr) ==
    [j EXCEPT !.pgn_rx_filter =
                  IF j1939_pgn_is_valid(addr.pgn) THEN addr.pgn ELSE @,
              !.src_name = addr.name,
              !.sa = addr.addr]

\* The result of bind(e, addr): the return value and the new values of the
\* state it writes.  start_ok and ecu_ok are the outcomes of
\* j1939_netdev_start and j1939_local_ecu_get.
BindResult(e, addr, start_ok, ecu_ok) ==
    LET j == jsk[e]
        ifx == addr.can_ifindex
        same == [ret |-> OK(0), j |-> j, socks |-> socks, ecu |-> ecu,
                 rx_kref |-> rx_kref, nfault |-> nfault, refs |-> NoRefs]
        san == j1939_sk_sanity_check(addr)
        \* line 279: ndev; lines 296 and 309: priv
        rdev == dev_get_by_index(NoRefs)
        rpriv == j1939_priv_get_by_ndev(rdev)
    IN
    IF san # "0" THEN [same EXCEPT !.ret = Fail(san)]
    ELSE IF ifx \notin NetDevs THEN [same EXCEPT !.ret = Fail("ENODEV")]
    ELSE IF J1939_SOCK_BOUND \in j.state /\ BindOtherIface(j, addr)
         THEN [same EXCEPT !.ret = Fail("EINVAL"), !.refs = dev_put(rdev)]
    ELSE IF J1939_SOCK_BOUND \notin j.state /\ ifx \notin CanDevs
         THEN [same EXCEPT !.ret = Fail("ENODEV"), !.refs = dev_put(rdev)]
    ELSE IF J1939_SOCK_BOUND \notin j.state /\ ~start_ok
         THEN [same EXCEPT !.ret = Fail("ENOMEM"), !.refs = dev_put(rdev)]
    ELSE
      LET rebind == J1939_SOCK_BOUND \in j.state
          \* drop old references / start the stack and record the interface
          ecu1 == IF rebind
                  THEN j1939_local_ecu_put(ecu, e, EcuKey(ifx, j.src_name, j.sa))
                  ELSE ecu
          kref1 == IF rebind THEN rx_kref ELSE j1939_netdev_start(rx_kref, ifx)
          j1 == IF rebind THEN j ELSE [j EXCEPT !.ifindex = ifx]
          j2 == BindSetAddr(j1, addr)
      IN
      IF ~ecu_ok
      THEN \* lines 320-323: goto out_dev_put, past j1939_priv_put
           [ret |-> Fail("ENOMEM"), j |-> j2, socks |-> socks, ecu |-> ecu1,
            rx_kref |-> j1939_netdev_stop(kref1, ifx), nfault |-> nfault + 1,
            refs |-> dev_put(rpriv)]
      ELSE
        LET ecu2 == j1939_local_ecu_get(ecu1, e, EcuKey(ifx, j2.src_name, j2.sa))
        IN
        IF BindAttaches(j2)
        THEN [ret |-> OK(0),
              j |-> [j2 EXCEPT !.state = @ \cup {J1939_SOCK_BOUND}],
              socks |-> [socks EXCEPT ![ifx] = list_add_tail(@, e)],
              ecu |-> ecu2, rx_kref |-> kref1, nfault |-> nfault,
              refs |-> dev_put(j1939_priv_put(rpriv))]
        ELSE [ret |-> OK(0), j |-> j2, socks |-> socks,
              ecu |-> ecu2, rx_kref |-> kref1, nfault |-> nfault,
              refs |-> dev_put(j1939_priv_put(rpriv))]

\* (j1939_netdev_start succeeds, j1939_local_ecu_get succeeds)
BindOutcomes == {<<TRUE, TRUE>>, <<FALSE, TRUE>>, <<TRUE, FALSE>>}

j1939_sk_bind(e, addr) ==
    /\ jsk[e].alive
    /\ \E r \in {BindResult(e, addr, o[1], o[2]) : o \in BindOutcomes} :
       /\ r.nfault <= MaxFaults
       /\ jsk' = [jsk EXCEPT ![e] = r.j]
       /\ socks' = r.socks
       /\ ecu' = r.ecu
       /\ rx_kref' = r.rx_kref
       /\ nfault' = r.nfault
       /\ UNCHANGED <<engine, thr>>
       /\ last' = RecordRefs("bind", e, addr, r.ret, << >>, r.refs)
    /\ UNCHANGED rcvq

(***************************************************************************)
(* j1939_sk_connect                                                        *)
(***************************************************************************)
ConnectNeedsBind_Never(j) == FALSE

\* line 356: bind() before connect() is mandatory
ConnectNeedsBind(j) == J1939_SOCK_BOUND \notin j.state

ConnectResult(j, addr) ==
    LET san == j1939_sk_sanity_check(addr) IN
    IF san # "0" THEN [ret |-> Fail(san), j |-> j]
    ELSE IF ConnectNeedsBind(j) THEN [ret |-> Fail("EINVAL"), j |-> j]
    ELSE IF j.ifindex # addr.can_ifindex THEN [ret |-> Fail("EINVAL"), j |-> j]
    ELSE IF addr.name = 0 /\ addr.addr = J1939_NO_ADDR /\ ~j.broadcast
         THEN [ret |-> Fail("EACCES"), j |-> j]
    ELSE [ret |-> OK(0),
          j |-> [j EXCEPT !.dst_name = addr.name,
                          !.da = addr.addr,
                          !.pgn = IF j1939_pgn_is_valid(addr.pgn)
                                  THEN addr.pgn ELSE @,
                          !.state = @ \cup {J1939_SOCK_CONNECTED}]]

j1939_sk_connect(e, addr) ==
    /\ jsk[e].alive
    /\ LET r == ConnectResult(jsk[e], addr) IN
       /\ jsk' = [jsk EXCEPT ![e] = r.j]
       /\ UNCHANGED <<engine, thr>>
       /\ last' = Record("connect", e, addr, r.ret)
    /\ UNCHANGED <<socks, ecu, rx_kref, nfault, rcvq>>

(***************************************************************************)
(* j1939_sk_release.  The wait for the pending counter ends when the       *)
(* counter is 0 or when a signal arrives (sig).                            *)
(***************************************************************************)
j1939_sk_release(e, sig) ==
    /\ jsk[e].alive
    /\ LET j == jsk[e] IN
       IF J1939_SOCK_BOUND \in j.state
       THEN /\ (j.skb_pending = 0 \/ sig)
            /\ socks' = [socks EXCEPT ![j.ifindex] = list_del_init(@, e)]
            /\ ecu' = j1939_local_ecu_put(ecu, e,
                                          EcuKey(j.ifindex, j.src_name, j.sa))
            /\ rx_kref' = j1939_netdev_stop(rx_kref, j.ifindex)
       ELSE /\ ~sig
            /\ UNCHANGED <<socks, ecu, rx_kref>>
    /\ jsk' = [jsk EXCEPT ![e] = FreedSock(@)]
    /\ rcvq' = [rcvq EXCEPT ![e] = << >>]
    /\ UNCHANGED <<engine, thr>>
    /\ last' = RecordRefs("release", e, NullAddr, OK(0), << >>,
                          IF J1939_SOCK_BOUND \in jsk[e].state
                          THEN dev_put(j1939_priv_put(
                                  j1939_priv_get_by_ndev(dev_get_by_index(NoRefs))))
                          ELSE NoRefs)
    /\ UNCHANGED nfault

(***************************************************************************)
(* j1939_sk_netdev_event: walks the endpoint list of the interface.        *)
(***************************************************************************)
RECURSIVE NetdevWalk(_, _, _, _)
NetdevWalk(list, ifx, error_code, st) ==
    IF list = << >> THEN st
    ELSE
      LET e == Head(list)
          j == st.jsk[e]
          st1 == [st EXCEPT !.jsk[e].sk_err = error_code]
          st2 == IF error_code = "ENODEV"
                 THEN [st1 EXCEPT
                         !.ecu = j1939_local_ecu_put(@, e,
                                     EcuKey(ifx, j.src_name, j.sa)),
                         !.rx_kref = j1939_netdev_stop(@, ifx)]
                 ELSE st1
      IN NetdevWalk(Tail(list), ifx, error_code, st2)

j1939_sk_netdev_event(ifx, error_code) ==
    /\ nfault < MaxFaults
    /\ LET r == NetdevWalk(socks[ifx], ifx, error_code,
                           [jsk |-> jsk, ecu |-> ecu, rx_kref |-> rx_kref])
       IN /\ jsk' = r.jsk
          /\ ecu' = r.ecu
          /\ rx_kref' = r.rx_kref
    /\ nfault' = nfault + 1
    /\ UNCHANGED <<engine, thr>>
    /\ last' = Record("netdev_event", 0, [ifindex |-> ifx, error_code |-> error_code],
                      OK(0))
    /\ UNCHANGED <<socks, rcvq>>

(***************************************************************************)
(* The inbound filter: j1939_sk_match_dst, j1939_sk_match_filter.          *)
(* A frame's control buffer (struct j1939_sk_buff_cb with the ifindex of   *)
(* can_skb_priv) is a record; insock is the sending endpoint, 0 for none.  *)
(***************************************************************************)
Skb(ifx, pgn, src, dst, insock, flags) ==
    [ ifindex |-> ifx, pgn |-> pgn,
      src_name |-> src[1], sa |-> src[2],
      dst_name |-> dst[1], da |-> dst[2],
      insock |-> insock, msg_flags |-> flags ]

j1939_address_is_unicast(a) == a # J1939_BROADCAST_ADDR

RECURSIVE BitAnd(_, _)
BitAnd(a, b) ==
    IF a = 0 \/ b = 0 THEN 0
    ELSE (a % 2) * (b % 2) + 2 * BitAnd(a \div 2, b \div 2)

DstFilter_AnyBroadcast(j, skcb) ==
    IF j.src_name # 0 /\ skcb.dst_name # 0
    THEN j.src_name = skcb.dst_name
    ELSE j1939_address_is_unicast(skcb.da) => j.sa = skcb.da

\* lines 111-129: the destination address filter
DstFilter(j, skcb) ==
    IF j.src_name # 0 /\ skcb.dst_name # 0
    THEN j.src_name = skcb.dst_name
    ELSE IF j1939_address_is_unicast(skcb.da)
         THEN j.sa = skcb.da
         ELSE j.broadcast

\* lines 131-143: the source address filter
SrcFilter(j, skcb) ==
    IF J1939_SOCK_CONNECTED \in j.state
    THEN IF j.dst_name # 0 /\ skcb.src_name # 0
         THEN j.dst_name = skcb.src_name
         ELSE j.da = skcb.sa
    ELSE TRUE

\* lines 145-148: the PGN filter
PgnFilter(j, skcb) ==
    ~(j1939_pgn_is_valid(j.pgn_rx_filter) /\ j.pgn_rx_filter # skcb.pgn)

\* line 108: a promiscuous endpoint returns before any of the filters
PromiscShortcut(j) == J1939_SOCK_PROMISC \in j.state

j1939_sk_match_dst(j, skcb) ==
    IF PromiscShortcut(j) THEN TRUE
    ELSE DstFilter(j, skcb) /\ SrcFilter(j, skcb) /\ PgnFilter(j, skcb)

\* lines 165-171: one filter entry against the frame
FilterEntryMatches(f, skcb) ==
    /\ BitAnd(skcb.pgn, f.pgn_mask) = f.pgn
    /\ BitAnd(skcb.sa, f.addr_mask) = f.addr
    /\ BitAnd(skcb.src_name, f.name_mask) = f.name

RECURSIVE FilterLoop(_, _, _)
FilterLoop(filters, nfilter, skcb) ==
    IF nfilter = 0 THEN FALSE
    ELSE IF FilterEntryMatches(Head(filters), skcb) THEN TRUE
    ELSE FilterLoop(Tail(filters), nfilter - 1, skcb)

j1939_sk_match_filter(j, skcb) ==
    IF j.nfilters = 0 THEN TRUE
    ELSE FilterLoop(j.filters, j.nfilters, skcb)

\* lines 183-198: the frame passes every test of j1939_sk_recv_one
RecvOneAccepts(e, j, oskb) ==
    /\ j.state \cap {J1939_SOCK_BOUND, J1939_SOCK_CONNECTED} # {}
    /\ j.ifindex = oskb.ifindex
    /\ ~(oskb.insock = e /\ J1939_SOCK_RECV_OWN \notin j.state)
    /\ j1939_sk_match_dst(j, oskb)
    /\ j1939_sk_match_filter(j, oskb)

\* the variant that keeps the flags the frame came with
CloneFor_KeepFlags(e, oskb) ==
    [oskb EXCEPT !.msg_flags =
        (@ \cup (IF oskb.insock # 0 THEN {"MSG_DONTROUTE"} ELSE {}))
            \cup (IF oskb.insock = e THEN {"MSG_CONFIRM"} ELSE {})]

\* lines 205-210: the flags of the clone
CloneFor(e, oskb) ==
    [oskb EXCEPT !.msg_flags =
        ((@ \ {"MSG_DONTROUTE", "MSG_CONFIRM"})
            \cup (IF oskb.insock # 0 THEN {"MSG_DONTROUTE"} ELSE {}))
            \cup (IF oskb.insock = e THEN {"MSG_CONFIRM"} ELSE {})]

\* the variant that puts the frame in front of the queue
sock_queue_rcv_skb_AtHead(sk, q, skb) ==
    IF Len(q) < sk.sk_rcvbuf THEN << skb >> \o q ELSE q

\* sock_queue_rcv_skb: refused when the receive buffer of the socket is
\* full, else the frame goes to the tail of the receive queue
sock_queue_rcv_skb(sk, q, skb) ==
    IF Len(q) < sk.sk_rcvbuf THEN Append(q, skb) ELSE q

\* j1939_sk_recv_one on endpoint e; noclone is the set of endpoints for which
\* skb_clone fails.
j1939_sk_recv_one(e, q, oskb, noclone) ==
    IF ~RecvOneAccepts(e, jsk[e], oskb) THEN q
    ELSE IF e \in noclone THEN q
    ELSE [q EXCEPT ![e] = sock_queue_rcv_skb(jsk[e], @, CloneFor(e, oskb))]

RECURSIVE RecvWalk(_, _, _, _)
RecvWalk(list, q, oskb, noclone) ==
    IF list = << >> THEN q
    ELSE RecvWalk(Tail(list), j1939_sk_recv_one(Head(list), q, oskb, noclone),
                  oskb, noclone)

\* j1939_sk_recv(priv, skb): the fan-out over the endpoint list of priv
j1939_sk_recv(ifx, oskb) ==
    /\ \E q \in {RecvWalk(socks[ifx], rcvq, oskb, n) : n \in SUBSET Socks} :
          rcvq' = q
    /\ UNCHANGED <<engine, thr>>
    /\ last' = Record("recv", 0, oskb, OK(0))
    /\ UNCHANGED <<jsk, socks, ecu, rx_kref, nfault>>

\* j1939_sk_recvmsg on the receive queue: skb_recv_datagram takes the head
j1939_sk_recvmsg(e) ==
    /\ jsk[e].alive
    /\ rcvq[e] # << >>
    /\ rcvq' = [rcvq EXCEPT ![e] = Tail(@)]
    /\ UNCHANGED <<engine, thr>>
    /\ last' = Record("recvmsg", e, Head(rcvq[e]), OK(0))
    /\ UNCHANGED <<jsk, socks, ecu, rx_kref, nfault>>

(***************************************************************************)
(* j1939_sk_setsockopt, and SO_BROADCAST of the generic socket layer.      *)
(***************************************************************************)
\* lines 480-483: a nonzero value sets the flag, zero clears it
SetFlag(state, tmp, flag) ==
    IF tmp # 0 THEN state \cup {flag} ELSE state \ {flag}

\* j1939_sk_setsockopt_flag; optlen_ok: optlen = sizeof(int)
j1939_sk_setsockopt_flag(e, tmp, optlen_ok, flag) ==
    /\ jsk[e].alive
    /\ IF ~optlen_ok
       THEN /\ last' = Record("setsockopt_flag", e,
                              [flag |-> flag, tmp |-> tmp], Fail("EINVAL"))
            /\ UNCHANGED jsk
       ELSE /\ jsk' = [jsk EXCEPT ![e].state = SetFlag(@, tmp, flag)]
            /\ last' = Record("setsockopt_flag", e,
                              [flag |-> flag, tmp |-> tmp], OK(tmp))
    /\ UNCHANGED <<socks, ecu, rx_kref, nfault, rcvq, engine, thr>>

PreMask_None(f) == f

\* lines 517-521: each entry is masked on install
PreMask(f) ==
    [f EXCEPT !.name = BitAnd(f.name, f.name_mask),
              !.pgn = BitAnd(f.pgn, f.pgn_mask),
              !.addr = BitAnd(f.addr, f.addr_mask)]

MaskAll(list) == [k \in 1..Len(list) |-> PreMask(list[k])]

\* case SO_J1939_FILTER.  optval is [null, list, rest]: the user's array,
\* with rest the bytes of optlen beyond a whole number of entries.
j1939_sk_setsockopt_filter(e, optval) ==
    /\ jsk[e].alive
    /\ LET arg == optval
           bad == ~optval.null
                    /\ (optval.rest # 0 \/ Len(optval.list) > J1939_FILTER_MAX)
           count == IF optval.null THEN 0 ELSE Len(optval.list)
           filters == IF optval.null THEN << >> ELSE MaskAll(optval.list)
       IN
       IF bad
       THEN /\ last' = Record("setsockopt_filter", e, arg, Fail("EINVAL"))
            /\ UNCHANGED jsk
       ELSE /\ jsk' = [jsk EXCEPT ![e].filters = filters, ![e].nfilters = count]
            /\ last' = Record("setsockopt_filter", e, arg, OK(0))
    /\ UNCHANGED <<socks, ecu, rx_kref, nfault, rcvq, engine, thr>>

\* sock_setsockopt(SOL_SOCKET, SO_BROADCAST): the SOCK_BROADCAST flag
sock_set_broadcast(e, on) ==
    /\ jsk[e].alive
    /\ jsk' = [jsk EXCEPT ![e].broadcast = on]
    /\ UNCHANGED <<engine, thr>>
    /\ last' = Record("so_broadcast", e, on, OK(0))
    /\ UNCHANGED <<socks, ecu, rx_kref, nfault, rcvq>>

(***************************************************************************)
(* The lifecycle specification: bind, connect, release and netdev events   *)
(* on two endpoints.                                                       *)
(***************************************************************************)
\* The addresses the callers pass: endpoint 1 binds over both CAN interfaces,
\* two local addresses and with or without a PGN; endpoint 2 binds one
\* address.  Index 0 is refused by the sanity check, 3 is no CAN device,
\* 4 is no device, PGN 59905 (0x0EA01) is a PDU1 PGN with a nonzero low byte,
\* PGN 262144 is out of range (none given).
GoodBindAddrs(e) ==
    IF e = 1
    THEN { SockAddr(i, na[1], na[2], p) :
             i \in CanDevs, na \in {<<0, 16>>, <<5, 32>>}, p \in {262144, 59904} }
    ELSE { SockAddr(i, 0, 16, 262144) : i \in CanDevs }

BadBindAddrs(e) ==
    IF e = 1
    THEN { SockAddr(i, 0, 16, 262144) : i \in {0, 3, 4} }
            \cup { SockAddr(1, 0, 16, 59905),
                   [SockAddr(1, 0, 16, 262144) EXCEPT !.can_family = "AF_INET"] }
    ELSE { }

BindAddrs(e) == GoodBindAddrs(e) \cup BadBindAddrs(e)

ConnectAddrs == { SockAddr(i, 0, 48, 262144) : i \in CanDevs }

Bind == \E e \in Socks : \E a \in BindAddrs(e) : j1939_sk_bind(e, a)

Connect == \E e \in Socks, a \in ConnectAddrs : j1939_sk_connect(e, a)

Release == \E e \in Socks : j1939_sk_release(e, FALSE)

NetdevEvent == \E i \in CanDevs, c \in {"ENODEV", "ENETDOWN"} :
                   j1939_sk_netdev_event(i, c)

Next == Bind \/ Connect \/ Release \/ NetdevEvent

Spec == Init /\ [][Next]_vars

(***************************************************************************)
(* The inbound specification: endpoint 1 is bound, connected and           *)
(* configured, and frames arrive on interface 1.                           *)
(***************************************************************************)
RecvBindAddrs == {SockAddr(1, 0, 16, 262144), SockAddr(1, 5, 16, 59904)}

RecvConnectAddrs == {SockAddr(1, 0, 48, 262144), SockAddr(1, 7, 64, 262144)}

\* The frames that arrive: PGN 0xEA00 from (NAME 7, 0x40) to address 0x10,
\* PGN 0x3FFFF from (NAME 0, 0x30) to broadcast, PGN 0xEA00 from (NAME 0, 0x30)
\* to (NAME 6, 0x10).
RecvFrames ==
    { Skb(1, 59904, <<7, 64>>, <<0, 16>>, 0, {}),
      Skb(1, 262143, <<0, 48>>, <<0, 255>>, 0, {}),
      Skb(1, 59904, <<0, 48>>, <<6, 16>>, 0, {}) }

\* The frames every endpoint configuration is probed with: PGN 0xEA00 and
\* 0x3FFFF, from (NAME 0, 0x30) or (NAME 7, 0x40), to (NAME 0, 0x10), to
\* broadcast, to (NAME 5, 0x20) or to (NAME 6, 0x10).
ProbeFrames ==
    { Skb(1, p, s, d, 0, {}) :
        p \in {59904, 262143}, s \in {<<0, 48>>, <<7, 64>>},
        d \in {<<0, 16>>, <<0, 255>>, <<0, 254>>, <<5, 32>>, <<6, 16>>} }

\* The filter entries a caller passes, not yet masked: PGN 0xEA01 under mask
\* 0x3FF00, address 0x41 under mask 0xF0, NAME 23 under mask 0xF.
RawFilters ==
    { [pgn |-> 59905, pgn_mask |-> 261888, addr |-> 0, addr_mask |-> 0,
       name |-> 0, name_mask |-> 0],
      [pgn |-> 0, pgn_mask |-> 0, addr |-> 65, addr_mask |-> 240,
       name |-> 0, name_mask |-> 0],
      [pgn |-> 0, pgn_mask |-> 0, addr |-> 0, addr_mask |-> 0,
       name |-> 23, name_mask |-> 15] }

FilterOptval(l) == [null |-> FALSE, list |-> l, rest |-> 0]

\* No filter (a NULL optval) or the one-entry list of the address filter.
RecvFilterOptvals ==
    { [null |-> TRUE, list |-> << >>, rest |-> 0],
      FilterOptval(<< [pgn |-> 0, pgn_mask |-> 0, addr |-> 65, addr_mask |-> 240,
                       name |-> 0, name_mask |-> 0] >>) }

RBind == \E a \in RecvBindAddrs : j1939_sk_bind(1, a)

RConnect == \E a \in RecvConnectAddrs : j1939_sk_connect(1, a)

SetPromisc == \E tmp \in {0, 1}, ok \in BOOLEAN :
                  j1939_sk_setsockopt_flag(1, tmp, ok, J1939_SOCK_PROMISC)

RSetFilter == \E v \in RecvFilterOptvals : j1939_sk_setsockopt_filter(1, v)

SetBroadcast == \E on \in BOOLEAN : sock_set_broadcast(1, on)

Recv == \E f \in RecvFrames : j1939_sk_recv(1, f)

RecvMsg == j1939_sk_recvmsg(1)

NextRecv ==
    RBind \/ RConnect \/ SetPromisc \/ RSetFilter \/ SetBroadcast \/ Recv \/ RecvMsg

SpecRecv == Init /\ [][NextRecv]_vars

(***************************************************************************)
(* The filter specification: endpoint 1 is bound to one address, installs  *)
(* filter lists and receives.                                              *)
(***************************************************************************)
RECURSIVE SeqsUpTo(_, _)
SeqsUpTo(S, n) ==
    IF n = 0 THEN {<< >>}
    ELSE LET shorter == SeqsUpTo(S, n - 1) IN
         shorter \cup {Append(q, x) : q \in shorter, x \in S}

\* Every list of at most MaxFilters entries, a NULL optval, and an optlen
\* that is no whole number of entries.
FilterOptvals ==
    { FilterOptval(l) : l \in SeqsUpTo(RawFilters, MaxFilters) }
        \cup { [null |-> TRUE, list |-> << >>, rest |-> 0],
               [null |-> FALSE, list |-> << >>, rest |-> 4] }

\* Frames to address 0x10: PGN 0xEA00 from (NAME 7, 0x40), PGN 0xEA7F from
\* (NAME 0, 0x4F), PGN 0x3FFFF from (NAME 0, 0x30), PGN 0xEB00 from (NAME 39, 0x30).
FilterFrames ==
    { Skb(1, 59904, <<7, 64>>, <<0, 16>>, 0, {}),
      Skb(1, 60031, <<0, 79>>, <<0, 16>>, 0, {}),
      Skb(1, 262143, <<0, 48>>, <<0, 16>>, 0, {}),
      Skb(1, 60160, <<39, 48>>, <<0, 16>>, 0, {}) }

FilterProbes ==
    { Skb(1, p, s, <<0, 16>>, 0, {}) :
        p \in {59904, 60031, 60160, 262143},
        s \in {<<0, 48>>, <<0, 79>>, <<7, 64>>, <<8, 64>>, <<39, 48>>} }

FBind == j1939_sk_bind(1, SockAddr(1, 0, 16, 59904))

FSetPromisc == \E tmp \in {0, 1} :
                   j1939_sk_setsockopt_flag(1, tmp, TRUE, J1939_SOCK_PROMISC)

FSetFilter == \E v \in FilterOptvals : j1939_sk_setsockopt_filter(1, v)

FRecv == \E f \in FilterFrames : j1939_sk_recv(1, f)

NextFilter == FBind \/ FSetPromisc \/ FSetFilter \/ FRecv \/ RecvMsg

SpecFilter == Init /\ [][NextFilter]_vars

(***************************************************************************)
(* Properties of the lifecycle.                                            *)
(***************************************************************************)
Bound(e) == jsk[e].alive /\ J1939_SOCK_BOUND \in jsk[e].state

Occurrences(list, e) == Cardinality({k \in 1..Len(list) : list[k] = e})

\* The handler that ran last left endpoint e, its claims, the endpoint lists
\* and the start/stop balance as they were.
Untouched(e) ==
    /\ jsk[e] = last.pre.jsk[e]
    /\ ecu[e] = last.pre.ecu[e]
    /\ socks = last.pre.socks
    /\ rx_kref = last.pre.rx_kref

\* C1: every BOUND endpoint holds exactly one local-ECU claim, on its
\* recorded (source NAME, source address), and no claim is dropped twice.
C1_OneClaimWhileBound ==
    \A e \in Socks :
        /\ ecu[e].over = 0
        /\ Bound(e) =>
              /\ BagCardinality(ecu[e].held) = 1
              /\ CopiesIn(EcuKey(jsk[e].ifindex, jsk[e].src_name, jsk[e].sa),
                          ecu[e].held) = 1

C3_StartStopBalance ==
    \A i \in CanDevs :
        rx_kref[i] = Cardinality({e \in Socks : Bound(e) /\ jsk[e].ifindex = i})

\* C4: CONNECTED implies BOUND, and a connect on an endpoint that is not
\* BOUND fails and changes nothing of the endpoint.
C4_ConnectedImpliesBound ==
    /\ \A e \in Socks :
          J1939_SOCK_CONNECTED \in jsk[e].state => J1939_SOCK_BOUND \in jsk[e].state
    /\ (last.op = "connect" /\ J1939_SOCK_BOUND \notin last.pre.jsk[last.sk].state)
          => (last.ret.err # "OK" /\ Untouched(last.sk))

\* A connect has succeeded and a later handler ran on the CONNECTED endpoint.
C4_Witness ==
    \E e \in Socks :
        /\ J1939_SOCK_CONNECTED \in jsk[e].state
        /\ J1939_SOCK_CONNECTED \in last.pre.jsk[e].state
        /\ last.op = "bind" /\ last.sk = e

\* The interface index of a BOUND endpoint is the one its bind recorded and
\* no handler changes it.
IfindexFixed ==
    /\ \A e \in Socks :
          (J1939_SOCK_BOUND \in last.pre.jsk[e].state /\ jsk[e].alive)
              => jsk[e].ifindex = last.pre.jsk[e].ifindex
    /\ (last.op = "bind" /\ last.ret.err = "OK")
          => (Bound(last.sk) /\ jsk[last.sk].ifindex = last.arg.can_ifindex)

Rebind ==
    /\ last.op = "bind"
    /\ J1939_SOCK_BOUND \in last.pre.jsk[last.sk].state
    /\ j1939_sk_sanity_check(last.arg) = "0"

\* C5 as stated: the interface index is fixed by the first successful bind;
\* a bind of a BOUND endpoint to the same interface succeeds, to another
\* interface index it fails with EINVAL and changes nothing.
C5_RebindAsStated ==
    /\ IfindexFixed
    /\ Rebind =>
          IF last.arg.can_ifindex = last.pre.jsk[last.sk].ifindex
          THEN last.ret.err = "OK"
          ELSE last.ret.err = "EINVAL" /\ Untouched(last.sk)

\* C5 as the code has it: the bind to the same interface succeeds unless the
\* local-ECU claim cannot be acquired; the bind to another index fails with
\* EINVAL when the index names a device and with ENODEV when it names none,
\* and changes nothing.
C5_Rebind ==
    /\ IfindexFixed
    /\ Rebind =>
          IF last.arg.can_ifindex = last.pre.jsk[last.sk].ifindex
          THEN IF nfault = last.pre.nfault
               THEN last.ret.err = "OK"
               ELSE last.ret.err = "ENOMEM"
          ELSE /\ last.ret.err =
                    (IF last.arg.can_ifindex \in NetDevs THEN "EINVAL" ELSE "ENODEV")
               /\ Untouched(last.sk)

\* A BOUND endpoint was bound to the other CAN interface and got EINVAL.
C5_Witness ==
    /\ Rebind
    /\ last.arg.can_ifindex \in CanDevs
    /\ last.arg.can_ifindex # last.pre.jsk[last.sk].ifindex
    /\ last.ret.err = "EINVAL"

(***************************************************************************)
(* Properties of the inbound path.  The Claimed operators are the filter   *)
(* rules as the specification states them.                                 *)
(***************************************************************************)
ClaimedDstMatch(j, F) ==
    \/ J1939_SOCK_PROMISC \in j.state
    \/ IF j.src_name # 0 /\ F.dst_name # 0
       THEN j.src_name = F.dst_name
       ELSE IF F.da # 255 THEN F.da = j.sa ELSE j.broadcast

ClaimedSrcMatch(j, F) ==
    J1939_SOCK_CONNECTED \in j.state =>
        IF j.dst_name # 0 /\ F.src_name # 0
        THEN j.dst_name = F.src_name
        ELSE j.da = F.sa

ClaimedPgnFilter(j, F) ==
    j.pgn_rx_filter <= 262143 => F.pgn = j.pgn_rx_filter

ClaimedUserFilter(L, F) ==
    \/ L = << >>
    \/ \E k \in 1..Len(L) :
          /\ BitAnd(F.pgn, L[k].pgn_mask) = BitAnd(L[k].pgn, L[k].pgn_mask)
          /\ BitAnd(F.sa, L[k].addr_mask) = BitAnd(L[k].addr, L[k].addr_mask)
          /\ BitAnd(F.src_name, L[k].name_mask) = BitAnd(L[k].name, L[k].name_mask)

\* The last handler was the fan-out and it queued a clone on endpoint e.
Enqueued(e) == last.op = "recv" /\ rcvq[e] # last.pre.rcvq[e]

\* C6: a clone is queued on E only if the destination match, the source
\* match of a CONNECTED endpoint, the PGN filter and the user filter all
\* hold; PROMISC passes the destination match only.
C6_EnqueueOnlyIfAllMatch ==
    \A e \in Socks :
        Enqueued(e) =>
            /\ ClaimedDstMatch(jsk[e], last.arg)
            /\ ClaimedSrcMatch(jsk[e], last.arg)
            /\ ClaimedPgnFilter(jsk[e], last.arg)
            /\ ClaimedUserFilter(jsk[e].filters, last.arg)

\* C7: with the source and PGN filters passing, j1939_sk_match_dst is the
\* destination match as stated; on a PROMISC endpoint it always holds; and
\* clearing PROMISC leaves the endpoint as it was but for the flag, so the
\* results are the PROMISC-off results.
C7_DstMatch ==
    /\ \A e \in Socks : \A F \in ProbeFrames :
          /\ J1939_SOCK_PROMISC \in jsk[e].state => j1939_sk_match_dst(jsk[e], F)
          /\ (SrcFilter(jsk[e], F) /\ PgnFilter(jsk[e], F))
                => (j1939_sk_match_dst(jsk[e], F) <=> ClaimedDstMatch(jsk[e], F))
    /\ (last.op = "setsockopt_flag" /\ last.ret.err = "OK"
            /\ last.arg.flag = J1939_SOCK_PROMISC)
          => jsk[last.sk] =
                [last.pre.jsk[last.sk] EXCEPT !.state =
                    IF last.arg.tmp # 0 THEN @ \cup {J1939_SOCK_PROMISC}
                    ELSE @ \ {J1939_SOCK_PROMISC}]
    /\ \A e \in Socks :
          (Enqueued(e) /\ SrcFilter(jsk[e], last.arg) /\ PgnFilter(jsk[e], last.arg))
              => ClaimedDstMatch(jsk[e], last.arg)

\* PROMISC was set on a BOUND endpoint and has just been cleared, and the
\* endpoint again rejects a frame by its destination and accepts another.
C7_Witness ==
    /\ last.op = "setsockopt_flag" /\ last.ret.err = "OK"
    /\ last.arg.flag = J1939_SOCK_PROMISC /\ last.arg.tmp = 0
    /\ J1939_SOCK_PROMISC \in last.pre.jsk[last.sk].state
    /\ Bound(last.sk)
    /\ \E F \in ProbeFrames : ~j1939_sk_match_dst(jsk[last.sk], F)
    /\ \E F \in ProbeFrames : j1939_sk_match_dst(jsk[last.sk], F)

J1939_MAX_TP_PACKET_SIZE == 1785

\* lines 711-726: the control block of an outbound skb of `size` bytes.  msg
\* is the msg_name of the call (msg.null: none was given).
j1939_sk_alloc_skb(e, j, msg, size) ==
    LET override == ~msg.null /\ (msg.name # 0 \/ msg.addr # J1939_NO_ADDR)
    IN [sk |-> e, ifindex |-> j.ifindex,
        src_name |-> j.src_name, sa |-> j.sa,
        dst_name |-> IF override THEN msg.name ELSE j.dst_name,
        da |-> IF override THEN msg.addr ELSE j.da,
        pgn |-> IF ~msg.null /\ j1939_pgn_is_valid(msg.pgn)
                THEN msg.pgn ELSE j.pgn,
        len |-> size, offset |-> 0]

SessionMatches(s, skcb, extd) ==
    /\ s.extd = extd
    /\ s.ifindex = skcb.ifindex
    /\ s.src_name = skcb.src_name /\ s.sa = skcb.sa
    /\ s.dst_name = skcb.dst_name /\ s.da = skcb.da

\* The index of the session the engine finds for skcb, 0 when it finds none.
j1939_session_get_by_skcb(sessions, skcb, extd) ==
    LET hits == { i \in 1..Len(sessions) : SessionMatches(sessions[i], skcb, extd) }
    IN IF hits = {} THEN 0 ELSE CHOOSE i \in hits : \A k \in hits : i <= k

Segment(skcb) == [offset |-> skcb.offset, len |-> skcb.len]

\* A new session of `size` bytes in all, with skcb its first segment.
j1939_tp_send(sessions, skcb, size) ==
    Append(sessions,
           [sk |-> skcb.sk, total |-> size,
            extd |-> size > J1939_MAX_TP_PACKET_SIZE,
            ifindex |-> skcb.ifindex,
            src_name |-> skcb.src_name, sa |-> skcb.sa,
            dst_name |-> skcb.dst_name, da |-> skcb.da,
            segs |-> << Segment(skcb) >>])

j1939_session_skb_queue(sessions, i, skcb) ==
    [sessions EXCEPT ![i].segs = Append(@, Segment(skcb))]

\* What one call meets: the allocations that succeed before one fails with
\* aerr ("0": none fails), and the result tp_err of the engine's send.
AllocErrors == {"EAGAIN", "ERESTARTSYS", "ENOBUFS"}

SendOutcomes ==
    { [nalloc |-> 0, aerr |-> "0", tp_err |-> t] : t \in {"0", "ENOBUFS"} }
      \cup { [nalloc |-> k, aerr |-> a, tp_err |-> "0"] :
                k \in 0..1, a \in AllocErrors }

\* lines 845-900: the segment loop.  st.session is the session of this call
\* (0: none yet), st.todo the bytes still to queue, st.ret the error that
\* ended the loop, st.kfree whether it left through kfree_skb.
RECURSIVE SendMultiLoop(_, _, _, _)
SendMultiLoop(e, msg, st, o) ==
    IF st.todo = 0 THEN st
    ELSE
      LET segment_size == IF st.todo > J1939_MAX_TP_PACKET_SIZE
                          THEN J1939_MAX_TP_PACKET_SIZE ELSE st.todo
          skcb == [j1939_sk_alloc_skb(e, st.j, msg, segment_size)
                      EXCEPT !.offset = st.j.etp_tx_done_size]
          Queued(sessions, idx) ==
              [st EXCEPT !.sessions = sessions, !.session = idx,
                         !.todo = @ - segment_size,
                         !.j.etp_tx_done_size = @ + segment_size,
                         !.nalloc = @ + 1]
          Kfree(err, fault) ==
              [st EXCEPT !.ret = err, !.kfree = TRUE, !.fault = fault,
                         !.j.etp_tx_done_size = 0]
      IN
      IF o.aerr # "0" /\ st.nalloc = o.nalloc
      THEN [st EXCEPT !.ret = o.aerr, !.fault = TRUE]
      ELSE IF st.session # 0
      THEN SendMultiLoop(e, msg,
               Queued(j1939_session_skb_queue(st.sessions, st.session, skcb),
                      st.session), o)
      ELSE IF st.j.etp_tx_done_size # 0
      THEN LET extd == st.j.etp_tx_complete_size > J1939_MAX_TP_PACKET_SIZE
               idx == j1939_session_get_by_skcb(st.sessions, skcb, extd)
           IN IF idx = 0
              THEN Kfree("ENOENT", FALSE)
              ELSE SendMultiLoop(e, msg,
                       Queued(j1939_session_skb_queue(st.sessions, idx, skcb),
                              idx), o)
      ELSE IF o.tp_err # "0"
      THEN Kfree(o.tp_err, TRUE)
      ELSE SendMultiLoop(e, msg,
               Queued(j1939_tp_send(st.sessions, skcb,
                                    st.j.etp_tx_complete_size),
                      Len(st.sessions) + 1), o)

\* lines 902-921: the result of the loop
SendMultiSwitch(st, size) ==
    LET ret == IF st.ret = "ERESTARTSYS" THEN "EINTR" ELSE st.ret IN
    IF st.ret = "0"
    THEN [ret |-> OK(size), j |-> [st.j EXCEPT !.etp_tx_done_size = 0]]
    ELSE IF ret \in {"EINTR", "EAGAIN"}
    THEN [ret |-> IF st.todo # size THEN OK(size - st.todo) ELSE Fail(ret),
          j |-> st.j]
    ELSE [ret |-> Fail(ret), j |-> [st.j EXCEPT !.etp_tx_done_size = 0]]

\* the variant that takes every size as the balance
ContinuationMismatch_Never(j, size) == FALSE

\* line 839: the size is not what is left of the datagram
ContinuationMismatch(j, size) ==
    j.etp_tx_complete_size # j.etp_tx_done_size + size

\* lines 826-932
j1939_sk_send_multi(e, j, sessions, msg, size, o) ==
    IF j.etp_tx_done_size # 0 /\ ContinuationMismatch(j, size)
    THEN [ret |-> Fail("EIO"), j |-> j, sessions |-> sessions, fault |-> FALSE]
    ELSE
      LET j0 == IF j.etp_tx_done_size = 0
                THEN [j EXCEPT !.skb_pending = @ + 1,
                               !.etp_tx_complete_size = size]
                ELSE j
          st == SendMultiLoop(e, msg,
                    [j |-> j0, sessions |-> sessions, session |-> 0,
                     todo |-> size, nalloc |-> 0, ret |-> "0",
                     kfree |-> FALSE, fault |-> FALSE], o)
          sw == SendMultiSwitch(st, size)
      IN IF st.kfree
         THEN [ret |-> Fail(st.ret), j |-> st.j, sessions |-> st.sessions,
               fault |-> st.fault]
         ELSE [ret |-> sw.ret, j |-> sw.j, sessions |-> st.sessions,
               fault |-> st.fault]

\* lines 934-948
j1939_sk_send_one(e, j, msg, size, o) ==
    IF o.aerr # "0" /\ o.nalloc = 0
    THEN [ret |-> Fail(o.aerr), tx |-> << >>, fault |-> TRUE]
    ELSE IF o.tp_err # "0"
    THEN [ret |-> Fail(o.tp_err), tx |-> << >>, fault |-> TRUE]
    ELSE [ret |-> OK(size),
          tx |-> << j1939_sk_alloc_skb(e, j, msg, size) >>,
          fault |-> FALSE]

\* lines 983-996: a broadcast target without SO_BROADCAST
SendBroadcastGate(j, msg) ==
    IF ~msg.null
    THEN msg.name = 0 /\ msg.addr = J1939_NO_ADDR /\ ~j.broadcast
    ELSE j.dst_name = 0 /\ j.da = J1939_NO_ADDR /\ ~j.broadcast

\* lines 959-996: the tests before a device is looked up; "0" when all pass
SendmsgChecks(j, msg) ==
    IF J1939_SOCK_BOUND \notin j.state THEN "EBADFD"
    ELSE IF j.src_name = 0 /\ j.sa = J1939_NO_ADDR THEN "EBADFD"
    ELSE IF ~msg.null /\ msg.short THEN "EINVAL"
    ELSE IF ~msg.null /\ msg.can_family # "AF_CAN" THEN "EINVAL"
    ELSE IF ~msg.null /\ msg.can_ifindex # 0 /\ msg.can_ifindex # j.ifindex
         THEN "EBADFD"
    ELSE IF ~msg.null /\ j1939_pgn_is_valid(msg.pgn)
                      /\ ~j1939_pgn_is_clean_pdu(msg.pgn)
         THEN "EINVAL"
    ELSE IF SendBroadcastGate(j, msg) THEN "EACCES"
    ELSE "0"

\* The result of sendmsg(e, msg, size) under outcome o.
SendmsgResult(e, msg, size, o) ==
    LET j == jsk[e]
        chk == SendmsgChecks(j, msg)
        same(err) == [ret |-> Fail(err), j |-> j, engine |-> engine,
                      tx |-> << >>, nfault |-> nfault, refs |-> NoRefs]
        \* line 999: ndev; line 1003: priv
        rdev == dev_get_by_index(NoRefs)
        rpriv == j1939_priv_get_by_ndev(rdev)
    IN
    IF chk # "0" THEN same(chk)
    ELSE IF j.ifindex \notin NetDevs THEN same("ENXIO")
    ELSE IF rx_kref[j.ifindex] <= 0
    THEN \* lines 1004-1005: return without dev_put
         [same("EINVAL") EXCEPT !.refs = rdev]
    ELSE IF size > 8
    THEN LET r == j1939_sk_send_multi(e, j, engine.sessions, msg, size, o)
         IN [ret |-> r.ret, j |-> r.j,
             engine |-> [engine EXCEPT !.sessions = r.sessions],
             tx |-> << >>,
             nfault |-> IF r.fault THEN nfault + 1 ELSE nfault,
             refs |-> dev_put(j1939_priv_put(rpriv))]
    ELSE LET r == j1939_sk_send_one(e, j, msg, size, o)
         IN [ret |-> r.ret, j |-> j, engine |-> engine, tx |-> r.tx,
             nfault |-> IF r.fault THEN nfault + 1 ELSE nfault,
             refs |-> dev_put(j1939_priv_put(rpriv))]

j1939_sk_sendmsg(e, msg, size) ==
    /\ jsk[e].alive
    /\ \E r \in { SendmsgResult(e, msg, size, o) : o \in SendOutcomes } :
          /\ r.nfault <= MaxFaults
          /\ Len(r.engine.sessions) <= MaxEngine
          /\ jsk' = [jsk EXCEPT ![e] = r.j]
          /\ engine' = r.engine
          /\ nfault' = r.nfault
          /\ last' = RecordRefs("sendmsg", e, [msg |-> msg, size |-> size],
                                 r.ret, r.tx, r.refs)
    /\ UNCHANGED <<socks, ecu, rx_kref, rcvq, thr>>

\* lines 96-103: the engine is done with session i and drops the endpoint's
\* pending count.
j1939_sock_pending_del(i) ==
    /\ i \in 1..Len(engine.sessions)
    /\ LET s == engine.sessions[i] IN
          /\ jsk' = [jsk EXCEPT ![s.sk].skb_pending = @ - 1]
          /\ engine' = [engine EXCEPT !.sessions =
                           SubSeq(@, 1, i - 1) \o SubSeq(@, i + 1, Len(@))]
          /\ last' = Record("session_done", s.sk, s, OK(0))
    /\ UNCHANGED <<socks, ecu, rx_kref, nfault, rcvq, thr>>

(***************************************************************************)
(* The send specification: endpoint 1 binds, connects, sets SO_BROADCAST   *)
(* and sends single frames and segmented datagrams, the engine completes   *)
(* sessions, and the endpoint is closed.                                   *)
(***************************************************************************)
SendBindAddrs == { SockAddr(1, 0, 16, 262144), SockAddr(1, 0, 254, 262144) }

SendConnectAddrs == { SockAddr(1, 0, 255, 262144), SockAddr(1, 0, 32, 262144) }

\* no msg_name, broadcast, the "no address" value; a unicast peer is reached
\* by connecting
SendMsgs ==
    { NullAddr, SockAddr(0, 0, 255, 262144), SockAddr(0, 0, 254, 262144) }

\* a single frame, and two segments with a balance of 5 and of 9 bytes;
\* mid-datagram also the balance itself
SendSizes(e) ==
    {5, 1790, 1794}
      \cup (IF jsk[e].etp_tx_done_size > 0
            THEN {jsk[e].etp_tx_complete_size - jsk[e].etp_tx_done_size}
            ELSE {})

\* endpoint 1 is bound once; re-binding is the lifecycle specification's
SBind ==
    /\ J1939_SOCK_BOUND \notin jsk[1].state
    /\ \E a \in SendBindAddrs : j1939_sk_bind(1, a)

SConnect == \E a \in SendConnectAddrs : j1939_sk_connect(1, a)

SSetBroadcast == \E on \in BOOLEAN : sock_set_broadcast(1, on)

Send == \E m \in SendMsgs : \E n \in SendSizes(1) : j1939_sk_sendmsg(1, m, n)

SessionDone == \E i \in 1..MaxEngine : j1939_sock_pending_del(i)

\* close() of endpoint 1, with or without a signal during its wait
SRelease == \E sig \in BOOLEAN : j1939_sk_release(1, sig)

NextSend ==
    SBind \/ SConnect \/ SSetBroadcast \/ Send \/ SessionDone \/ SRelease

SpecSend == Init /\ [][NextSend]_vars

(***************************************************************************)
(* Properties of the outbound path.                                        *)
(***************************************************************************)
\* The last handler was a sendmsg on an endpoint that was BOUND with a
\* source set.
SentBySourced ==
    /\ last.op = "sendmsg"
    /\ J1939_SOCK_BOUND \in last.pre.jsk[last.sk].state
    /\ \/ last.pre.jsk[last.sk].src_name # 0
       \/ last.pre.jsk[last.sk].sa # 254

\* The target of the send as the specification resolves it: the destination
\* given in the call, else the peer of the endpoint.
ClaimedBroadcastTarget(j, msg) ==
    IF ~msg.null
    THEN msg.name = 0 /\ msg.addr = 255
    ELSE j.dst_name = 0 /\ j.da = 255

\* Nothing was handed to the engine or to the device by the last handler.
QueuedNothing ==
    /\ engine = last.pre.engine
    /\ last.tx = << >>

\* C9: a send by a BOUND endpoint with a source set whose target is
\* broadcast fails with EACCES and queues nothing while SO_BROADCAST is off,
\* and is not refused with EACCES once it is on.
C9_BroadcastGate ==
    (SentBySourced
        /\ ClaimedBroadcastTarget(last.pre.jsk[last.sk], last.arg.msg))
      => IF ~last.pre.jsk[last.sk].broadcast
         THEN last.ret.err = "EACCES" /\ QueuedNothing
         ELSE last.ret.err # "EACCES"

\* C17: a send with no destination address (msg_name NULL) on a BOUND
\* endpoint that has no connected peer (not CONNECTED, peer NAME 0, peer
\* address 0xFE) fails with EDESTADDRREQ and queues nothing.
C17_DestinationRequired ==
    (/\ last.op = "sendmsg"
     /\ last.arg.msg.null
     /\ J1939_SOCK_BOUND \in last.pre.jsk[last.sk].state
     /\ J1939_SOCK_CONNECTED \notin last.pre.jsk[last.sk].state
     /\ last.pre.jsk[last.sk].dst_name = 0
     /\ last.pre.jsk[last.sk].da = J1939_NO_ADDR)
      => /\ last.ret.err = "EDESTADDRREQ"
         /\ QueuedNothing

\* The segments cover the bytes 0 .. total without gap or overlap.
Contiguous(segs, total) ==
    /\ segs # << >>
    /\ segs[1].offset = 0
    /\ \A i \in 1..(Len(segs) - 1) :
          segs[i + 1].offset = segs[i].offset + segs[i].len
    /\ segs[Len(segs)].offset + segs[Len(segs)].len = total

\* The sessions of endpoint e among ss.
SessionsOf(ss, e) == { i \in 1..Len(ss) : ss[i].sk = e }

\* The last handler was a send of the balance by an endpoint that was
\* mid-datagram, met no failure of its own, and the engine still held the
\* session of the datagram for the same addresses.
BalanceSent ==
    /\ last.op = "sendmsg"
    /\ LET j == last.pre.jsk[last.sk]
           ss == last.pre.engine.sessions
       IN /\ j.etp_tx_done_size > 0
          /\ last.arg.size = j.etp_tx_complete_size - j.etp_tx_done_size
          /\ nfault = last.pre.nfault
          /\ SendmsgChecks(j, last.arg.msg) = "0"
          /\ last.pre.rx_kref[j.ifindex] > 0
          /\ \E i \in SessionsOf(ss, last.sk) :
                /\ ss[i].total = j.etp_tx_complete_size
                /\ SessionMatches(ss[i],
                       j1939_sk_alloc_skb(last.sk, j, last.arg.msg, last.arg.size),
                       j.etp_tx_complete_size > J1939_MAX_TP_PACKET_SIZE)

\* C10: a segmented send of S bytes from done_size = 0 that returns k with
\* 0 < k < S leaves done_size = k and expected size S and has handed the
\* engine one new session of total S; the following send of the balance
\* S - k returns S - k, resets done_size to 0, starts no session and emits
\* no frame of its own, and the session then holds the contiguous segments
\* of 0 .. S.
C10_SegmentedExchange ==
    /\ (last.op = "sendmsg" /\ last.arg.size > 8
          /\ last.pre.jsk[last.sk].etp_tx_done_size = 0
          /\ last.ret.err = "OK" /\ last.ret.n < last.arg.size)
        => /\ last.ret.n > 0
           /\ jsk[last.sk].etp_tx_done_size = last.ret.n
           /\ jsk[last.sk].etp_tx_complete_size = last.arg.size
           /\ Len(engine.sessions) = Len(last.pre.engine.sessions) + 1
           /\ engine.sessions[Len(engine.sessions)].total = last.arg.size
    /\ BalanceSent
        => /\ last.ret = OK(last.arg.size)
           /\ jsk[last.sk].etp_tx_done_size = 0
           /\ Len(engine.sessions) = Len(last.pre.engine.sessions)
           /\ last.tx = << >>
           /\ \E i \in SessionsOf(engine.sessions, last.sk) :
                 /\ engine.sessions[i].total
                       = last.pre.jsk[last.sk].etp_tx_complete_size
                 /\ Contiguous(engine.sessions[i].segs, engine.sessions[i].total)

\* The last handler was a send of exactly the balance, of 1 byte or more, by
\* an endpoint that was mid-datagram.
MidDatagramBalance ==
    /\ last.op = "sendmsg"
    /\ last.pre.jsk[last.sk].etp_tx_done_size > 0
    /\ last.arg.size >= 1
    /\ last.arg.size = last.pre.jsk[last.sk].etp_tx_complete_size
                          - last.pre.jsk[last.sk].etp_tx_done_size

\* C19: a send of the balance by an endpoint that is mid-datagram, whatever
\* the balance (8 bytes or fewer included), is a continuation: no single
\* frame is emitted, and when the call succeeds its bytes are a segment of
\* the endpoint's session at offset done_size and done_size is 0 again.
C19_BalanceIsContinuation ==
    MidDatagramBalance =>
       /\ last.tx = << >>
       /\ last.ret.err = "OK" =>
             /\ jsk[last.sk].etp_tx_done_size = 0
             /\ \E i \in SessionsOf(engine.sessions, last.sk) :
                   \E k \in 1..Len(engine.sessions[i].segs) :
                      /\ engine.sessions[i].segs[k].offset
                            = last.pre.jsk[last.sk].etp_tx_done_size
                      /\ engine.sessions[i].segs[k].len = last.arg.size

\* C11: the engine holds at most one session made by the segmented send of
\* an endpoint, and a call made mid-datagram that queues segments starts no
\* session and queues them on that endpoint's session, whose total is the
\* endpoint's expected size.
C11_OneSessionInFlight ==
    /\ \A e \in Socks : Cardinality(SessionsOf(engine.sessions, e)) <= 1
    /\ (last.op = "sendmsg" /\ last.pre.jsk[last.sk].etp_tx_done_size > 0
           /\ engine # last.pre.engine)
        => /\ Len(engine.sessions) = Len(last.pre.engine.sessions)
           /\ \A i \in 1..Len(engine.sessions) :
                 engine.sessions[i] # last.pre.engine.sessions[i]
                    => /\ engine.sessions[i].sk = last.sk
                       /\ engine.sessions[i].total
                             = last.pre.jsk[last.sk].etp_tx_complete_size

\* C12: the pending count of an endpoint is never negative, and once the
\* engine has freed every session it was handed for the endpoint the count
\* is 0, whatever the outcome of the sends that were made.
C12_PendingDrains ==
    \A e \in Socks :
        /\ jsk[e].skb_pending >= 0
        /\ SessionsOf(engine.sessions, e) = {} => jsk[e].skb_pending = 0

\* C13: release of a BOUND endpoint detaches it, drops its claim and frees it
\* only when its pending count is 0; so the engine never holds a session of
\* a released endpoint and never calls j1939_sock_pending_del on one.
C13_ReleaseAfterDrain ==
    /\ (last.op = "release"
           /\ J1939_SOCK_BOUND \in last.pre.jsk[last.sk].state)
        => /\ last.pre.jsk[last.sk].skb_pending = 0
           /\ \A i \in CanDevs : Occurrences(socks[i], last.sk) = 0
    /\ \A e \in Socks :
          ~jsk[e].alive => /\ SessionsOf(engine.sessions, e) = {}
                           /\ jsk[e].skb_pending = 0
    /\ last.op = "session_done" => last.pre.jsk[last.sk].alive

(***************************************************************************)
(* SO_J1939_FILTER and j1939_sk_match_filter step by step.  The writer     *)
(* runs under lock_sock, the reader under priv->j1939_socks_lock, so the   *)
(* steps of one interleave with the steps of the other.                    *)
(***************************************************************************)
\* lines 501-521: the checks, the copy of the user's array and its masking
FilterWriteBegin(e, optval) ==
    /\ jsk[e].alive
    /\ thr.wpc = "idle"
    /\ LET bad == ~optval.null
                    /\ (optval.rest # 0 \/ Len(optval.list) > J1939_FILTER_MAX)
       IN IF bad
          THEN /\ last' = Record("setsockopt_filter", e, optval, Fail("EINVAL"))
               /\ UNCHANGED thr
          ELSE /\ thr' = [thr EXCEPT
                             !.wpc = "ptr", !.wsk = e,
                             !.wfilters = IF optval.null THEN << >>
                                          ELSE MaskAll(optval.list),
                             !.wcount = IF optval.null THEN 0
                                        ELSE Len(optval.list)]
               /\ last' = Record("filter_begin", e, optval, OK(0))
    /\ UNCHANGED <<jsk, socks, ecu, rx_kref, nfault, rcvq, engine>>

\* lines 525-526: ofilters = jsk->filters; jsk->filters = filters
FilterWritePtr ==
    /\ thr.wpc = "ptr"
    /\ jsk' = [jsk EXCEPT ![thr.wsk].filters = thr.wfilters]
    /\ thr' = [thr EXCEPT !.wpc = "count",
                          !.rarr = IF @ = "cur" /\ thr.rsk = thr.wsk
                                   THEN "old" ELSE @]
    /\ last' = Record("filter_ptr", thr.wsk, thr.wfilters, OK(0))
    /\ UNCHANGED <<socks, ecu, rx_kref, nfault, rcvq, engine>>

\* line 527: jsk->nfilters = count
FilterWriteCount ==
    /\ thr.wpc = "count"
    /\ jsk' = [jsk EXCEPT ![thr.wsk].nfilters = thr.wcount]
    /\ thr' = [thr EXCEPT !.wpc = "free"]
    /\ last' = Record("filter_count", thr.wsk, thr.wcount, OK(0))
    /\ UNCHANGED <<socks, ecu, rx_kref, nfault, rcvq, engine>>

\* lines 528-530: kfree(ofilters); return 0
FilterWriteFree ==
    /\ thr.wpc = "free"
    /\ thr' = [thr EXCEPT !.wpc = "idle", !.wsk = 0,
                          !.wfilters = << >>, !.wcount = 0,
                          !.rarr = IF @ = "old" /\ thr.rf # << >>
                                   THEN "freed" ELSE @]
    /\ last' = Record("filter_free", thr.wsk, thr.wfilters, OK(0))
    /\ UNCHANGED <<jsk, socks, ecu, rx_kref, nfault, rcvq, engine>>

\* line 157, reached from j1939_sk_recv_one: f = jsk->filters
MatchFilterReadPtr(e, skb) ==
    /\ jsk[e].alive
    /\ thr.rpc = "idle"
    /\ J1939_SOCK_BOUND \in jsk[e].state
    /\ jsk[e].ifindex = skb.ifindex
    /\ j1939_sk_match_dst(jsk[e], skb)
    /\ thr' = [thr EXCEPT !.rpc = "count", !.rsk = e, !.rskb = skb,
                          !.rf = jsk[e].filters, !.rarr = "cur"]
    /\ last' = Record("match_ptr", e, skb, OK(0))
    /\ UNCHANGED <<jsk, socks, ecu, rx_kref, nfault, rcvq, engine>>

\* line 158: nfilter = jsk->nfilters
MatchFilterReadCount ==
    /\ thr.rpc = "count"
    /\ thr' = [thr EXCEPT !.rpc = "walk", !.rn = jsk[thr.rsk].nfilters]
    /\ last' = Record("match_count", thr.rsk, thr.rskb, OK(0))
    /\ UNCHANGED <<jsk, socks, ecu, rx_kref, nfault, rcvq, engine>>

\* lines 160-173: the walk over nfilter entries of f.  A walk beyond the
\* array, or over a freed array, reads what it finds there.
MatchFilterWalk ==
    /\ thr.rpc = "walk"
    /\ \E res \in BOOLEAN :
          /\ IF thr.rn > Len(thr.rf) \/ (thr.rarr = "freed" /\ thr.rn # 0)
             THEN TRUE
             ELSE res = (IF thr.rn = 0 THEN TRUE
                         ELSE FilterLoop(thr.rf, thr.rn, thr.rskb))
          /\ last' = Record("match_filter", thr.rsk,
                            [f |-> thr.rf, nfilter |-> thr.rn,
                             arr |-> thr.rarr, res |-> res], OK(0))
    /\ thr' = [thr EXCEPT !.rpc = "idle", !.rsk = 0, !.rskb = << >>,
                          !.rf = << >>, !.rn = 0, !.rarr = "none"]
    /\ UNCHANGED <<jsk, socks, ecu, rx_kref, nfault, rcvq, engine>>

(***************************************************************************)
(* The filter-race specification: endpoint 1 is bound, one thread installs *)
(* filter lists and the inbound path evaluates the filter.                 *)
(***************************************************************************)
RaceBegin == \E v \in FilterOptvals : FilterWriteBegin(1, v)

RaceRead == \E f \in FilterFrames : MatchFilterReadPtr(1, f)

NextRace ==
    \/ FBind
    \/ RaceBegin \/ FilterWritePtr \/ FilterWriteCount \/ FilterWriteFree
    \/ RaceRead \/ MatchFilterReadCount \/ MatchFilterWalk

SpecRace == Init /\ [][NextRace]_vars

\* C14: the reader of the user filter walks one installed list, its whole
\* array with its own count, and never an array that was freed.
C14_FilterSwapAtomic ==
    last.op = "match_filter"
        => /\ last.arg.nfilter = Len(last.arg.f)
           /\ last.arg.arr # "freed"


(***************************************************************************)
(* getsockname and getpeername.  J1939_MIN_NAMELEN is the size of struct   *)
(* sockaddr_can through can_addr.j1939: 8 bytes of family and interface    *)
(* index, 16 bytes of NAME, PGN and address.                               *)
(***************************************************************************)
J1939_MIN_NAMELEN == 24

\* the variant that fills in the local side whatever peer says
j1939_sk_sock2sockaddr_can_LocalSide(j, peer) ==
    SockAddr(j.ifindex, j.src_name, j.sa, j.pgn)

j1939_sk_sock2sockaddr_can(j, peer) ==
    IF peer THEN SockAddr(j.ifindex, j.dst_name, j.da, j.pgn)
    ELSE SockAddr(j.ifindex, j.src_name, j.sa, j.pgn)

\* uaddr is the caller's buffer: it is left as it was (null here) on failure
j1939_sk_getname(e, peer) ==
    /\ jsk[e].alive
    /\ LET j == jsk[e] IN
       IF peer /\ J1939_SOCK_CONNECTED \notin j.state
       THEN last' = Record("getname", e, [peer |-> peer, uaddr |-> NullAddr],
                           Fail("EADDRNOTAVAIL"))
       ELSE last' = Record("getname", e,
                           [peer |-> peer,
                            uaddr |-> j1939_sk_sock2sockaddr_can(j, peer)],
                           OK(J1939_MIN_NAMELEN))
    /\ UNCHANGED <<jsk, socks, ecu, rx_kref, nfault, rcvq, engine, thr>>

(***************************************************************************)
(* The specification of the name queries: two endpoints that bind,         *)
(* connect with and without a PGN, and ask for their names.                *)
(***************************************************************************)
NameBindAddrs == { SockAddr(1, 0, 16, 262144), SockAddr(1, 5, 32, 59904) }

NameConnectAddrs == { SockAddr(1, 7, 64, 59904), SockAddr(1, 0, 48, 262144),
                      SockAddr(1, 0, 80, 60160) }

NBind == \E e \in Socks, a \in NameBindAddrs : j1939_sk_bind(e, a)

NConnect == \E e \in Socks, a \in NameConnectAddrs : j1939_sk_connect(e, a)

GetName == \E e \in Socks, peer \in BOOLEAN : j1939_sk_getname(e, peer)

NextName == NBind \/ NConnect \/ GetName

SpecName == Init /\ [][NextName]_vars

(***************************************************************************)
(* Properties of the name queries.                                         *)
(***************************************************************************)
Succeeded == last.ret.err = "OK"

\* what getsockname has to return: the bound interface, NAME and address
LocalSide(j) == <<j.ifindex, j.src_name, j.sa>>

\* what getpeername has to return: the peer's NAME and address, and the PGN
PeerSide(j) == <<j.dst_name, j.da, j.pgn>>

\* Between the calls that set them, the two sides stay as they are: a
\* connect and a name query leave the local side alone, a bind and a name
\* query leave the peer side alone, and a failed connect changes nothing.
SidesKept ==
    \A e \in Socks :
       /\ (last.op \in {"connect", "getname"} \/ last.sk # e)
             => LocalSide(jsk[e]) = LocalSide(last.pre.jsk[e])
       /\ (last.op \in {"bind", "getname"} \/ last.sk # e
              \/ (last.op = "connect" /\ ~Succeeded))
             => /\ PeerSide(jsk[e]) = PeerSide(last.pre.jsk[e])
                /\ (J1939_SOCK_CONNECTED \in jsk[e].state)
                      = (J1939_SOCK_CONNECTED \in last.pre.jsk[e].state)

\* a name query returns the side it was asked for, or address-not-available
GetNameAnswers ==
    last.op = "getname" =>
       LET j == jsk[last.sk]
           u == last.arg.uaddr
       IN IF last.arg.peer /\ J1939_SOCK_CONNECTED \notin j.state
          THEN last.ret = Fail("EADDRNOTAVAIL")
          ELSE /\ Succeeded
               /\ ~u.null
               /\ last.arg.peer => <<u.name, u.addr, u.pgn>> = PeerSide(j)
               /\ ~last.arg.peer
                     => <<u.can_ifindex, u.name, u.addr>> = LocalSide(j)

BindSetsLocalSide ==
    (last.op = "bind" /\ Succeeded)
       => LocalSide(jsk[last.sk])
             = <<last.arg.can_ifindex, last.arg.name, last.arg.addr>>

OwnFrames ==
    { Skb(1, 262143, <<0, 16>>, <<0, 16>>, i, fl) :
        i \in {0} \cup Socks,
        fl \in { {}, {"MSG_DONTROUTE", "MSG_CONFIRM"} } }

OBind == \E e \in Socks :
            /\ J1939_SOCK_BOUND \notin jsk[e].state
            /\ j1939_sk_bind(e, SockAddr(1, 0, 16, 262144))

SetRecvOwn == \E e \in Socks, tmp \in {0, 1} :
                 j1939_sk_setsockopt_flag(e, tmp, TRUE, J1939_SOCK_RECV_OWN)

\* a frame that carries an insock was sent by that endpoint, which is bound
ORecv == \E f \in OwnFrames :
            /\ f.insock # 0 => J1939_SOCK_BOUND \in jsk[f.insock].state
            /\ j1939_sk_recv(1, f)

ORecvMsg == \E e \in Socks : j1939_sk_recvmsg(e)

NextOwn == OBind \/ SetRecvOwn \/ ORecv \/ ORecvMsg

SpecOwn == Init /\ [][NextOwn]_vars

\* the clone the fan-out queued on endpoint e
QueuedClone(e) == rcvq[e][Len(rcvq[e])]

\* C16: a frame that originated at endpoint E is delivered to E only if E
\* has RECV_OWN set; every delivered clone carries MSG_CONFIRM iff the frame
\* originated at the receiving endpoint and MSG_DONTROUTE iff it originated
\* at any local endpoint, whatever flags the sender left on the frame.
C16_OwnFrames ==
    \A e \in Socks :
        Enqueued(e) =>
            /\ last.arg.insock = e => J1939_SOCK_RECV_OWN \in jsk[e].state
            /\ ("MSG_CONFIRM" \in QueuedClone(e).msg_flags)
                  <=> (last.arg.insock = e)
            /\ ("MSG_DONTROUTE" \in QueuedClone(e).msg_flags)
                  <=> (last.arg.insock # 0)

\* a frame of endpoint 1 that came with both flags set is queued on both
\* endpoints
C16_Witness ==
    /\ Enqueued(1)
    /\ Enqueued(2)
    /\ last.arg.insock = 1
    /\ last.arg.msg_flags = {"MSG_DONTROUTE", "MSG_CONFIRM"}


(***************************************************************************)
(* j1939_sk_errqueue: the notification the transport engine asks for at a  *)
(* lifecycle point of a session.  session is [sk, err, tskey, pkt_done,    *)
(* total_message_size], with sk = 0 for a session without endpoint; type   *)
(* is the enum value, "UNKNOWN" standing for every value that is none of   *)
(* the three; opt_id is SOF_TIMESTAMPING_OPT_ID in sk->sk_tsflags.         *)
(***************************************************************************)
Min(a, b) == IF a < b THEN a ELSE b

\* j1939_sk_get_timestamping_opt_stats: J1939_NLA_BYTES_ACKED
j1939_sk_get_timestamping_opt_stats(session) ==
    [bytes_acked |-> Min(session.pkt_done * 7, session.total_message_size)]

\* lines 779-801: the extended error of the notification, zeroed by memset;
\* the default case of the switch logs and goes on
SockExtendedErr(session, type) ==
    IF type = "ACK"
    THEN [ee_errno |-> "ENOMSG", ee_origin |-> "SO_EE_ORIGIN_TIMESTAMPING",
          ee_info |-> "SCM_TSTAMP_ACK"]
    ELSE IF type = "SCHED"
    THEN [ee_errno |-> "ENOMSG", ee_origin |-> "SO_EE_ORIGIN_TIMESTAMPING",
          ee_info |-> "SCM_TSTAMP_SCHED"]
    ELSE IF type = "ABORT"
    THEN [ee_errno |-> session.err, ee_origin |-> "SO_EE_ORIGIN_LOCAL",
          ee_info |-> "J1939_EE_INFO_TX_ABORT"]
    ELSE [ee_errno |-> "0", ee_origin |-> "0", ee_info |-> "0"]

\* sock_queue_err_skb: refused when the receive buffer is full
sock_queue_err_skb(q, skb) == IF Len(q) < MaxRcvQ THEN Append(q, skb) ELSE q

\* nostats: alloc_skb of the opt-stats block fails
j1939_sk_errqueue(session, type, opt_id, nostats) ==
    /\ session.sk # 0 => jsk[session.sk].alive
    /\ nostats => nfault < MaxFaults
    /\ IF session.sk = 0
       THEN UNCHANGED <<jsk, nfault>>
       ELSE IF J1939_SOCK_ERRQUEUE \notin jsk[session.sk].state
       THEN UNCHANGED <<jsk, nfault>>
       ELSE IF nostats
       THEN /\ nfault' = nfault + 1
            /\ UNCHANGED jsk
       ELSE /\ jsk' = [jsk EXCEPT ![session.sk].sk_error_queue =
                         sock_queue_err_skb(@,
                            [ee |-> SockExtendedErr(session, type),
                             ee_data |-> IF opt_id THEN session.tskey ELSE 0,
                             opt_stats |->
                                j1939_sk_get_timestamping_opt_stats(session)])]
            /\ UNCHANGED nfault
    /\ last' = Record("errqueue", session.sk,
                      [session |-> session, type |-> type], OK(0))
    /\ UNCHANGED <<socks, ecu, rx_kref, rcvq, engine, thr>>

\* case SO_J1939_ERRQUEUE: the flag, and the error queue is purged when the
\* flag ends up clear
j1939_sk_setsockopt_errqueue(e, tmp, optlen_ok) ==
    /\ jsk[e].alive
    /\ IF ~optlen_ok
       THEN /\ last' = Record("setsockopt_flag", e,
                              [flag |-> J1939_SOCK_ERRQUEUE, tmp |-> tmp],
                              Fail("EINVAL"))
            /\ UNCHANGED jsk
       ELSE /\ jsk' = [jsk EXCEPT
                         ![e].state = SetFlag(@, tmp, J1939_SOCK_ERRQUEUE),
                         ![e].sk_error_queue = IF tmp # 0 THEN @ ELSE << >>]
            /\ last' = Record("setsockopt_flag", e,
                              [flag |-> J1939_SOCK_ERRQUEUE, tmp |-> tmp],
                              OK(tmp))
    /\ UNCHANGED <<socks, ecu, rx_kref, nfault, rcvq, engine, thr>>

\* j1939_sk_recvmsg with MSG_ERRQUEUE: sock_recv_errqueue takes the head
j1939_sk_recvmsg_errqueue(e) ==
    /\ jsk[e].alive
    /\ IF jsk[e].sk_error_queue = << >>
       THEN /\ last' = Record("recv_errqueue", e, NullAddr, Fail("EAGAIN"))
            /\ UNCHANGED jsk
       ELSE /\ last' = Record("recv_errqueue", e, Head(jsk[e].sk_error_queue),
                              OK(0))
            /\ jsk' = [jsk EXCEPT ![e].sk_error_queue = Tail(@)]
    /\ UNCHANGED <<socks, ecu, rx_kref, nfault, rcvq, engine, thr>>

(***************************************************************************)
(* The specification of the error queue: two endpoints that set and clear  *)
(* SO_J1939_ERRQUEUE and read their error queue, and the engine reporting  *)
(* on sessions of either endpoint and of none.                             *)
(***************************************************************************)
ErrSessions ==
    { [sk |-> s, err |-> "ECONNRESET", tskey |-> 3, pkt_done |-> 1,
       total_message_size |-> 12] : s \in {0} \cup Socks }

ErrTypes == {"ACK", "SCHED", "ABORT", "UNKNOWN"}

SetErrQueue == \E e \in Socks, tmp \in {0, 1}, ok \in BOOLEAN :
                  j1939_sk_setsockopt_errqueue(e, tmp, ok)

ErrQueue == \E s \in ErrSessions, t \in ErrTypes, opt_id, nostats \in BOOLEAN :
               j1939_sk_errqueue(s, t, opt_id, nostats)

ErrRecv == \E e \in Socks : j1939_sk_recvmsg_errqueue(e)

NextErr == SetErrQueue \/ ErrQueue \/ ErrRecv

SpecErr == Init /\ [][NextErr]_vars

\* C18: the producer enqueues a notification on the session's endpoint iff
\* the endpoint has ERRQUEUE set and the type is ACK, SCHED or ABORT; without
\* ERRQUEUE, for a session without endpoint and for an unknown type no
\* error queue changes.
C18_ErrqueueProducer ==
    last.op = "errqueue" =>
       \A e \in Socks :
          (jsk[e].sk_error_queue # last.pre.jsk[e].sk_error_queue)
             <=> /\ e = last.sk
                 /\ J1939_SOCK_ERRQUEUE \in last.pre.jsk[e].state
                 /\ last.arg.type \in {"ACK", "SCHED", "ABORT"}


(***************************************************************************)
(* The specification of segmented sends of one endpoint: bound to address  *)
(* 0x10, connected to 0x20, sending 1790 or 1794 bytes, a single frame or, *)
(* mid-datagram, the balance, with the engine finishing sessions.          *)
(***************************************************************************)
SegBind ==
    /\ J1939_SOCK_BOUND \notin jsk[1].state
    /\ j1939_sk_bind(1, SockAddr(1, 0, 16, 262144))

SegConnect ==
    /\ J1939_SOCK_CONNECTED \notin jsk[1].state
    /\ j1939_sk_connect(1, SockAddr(1, 0, 32, 262144))

SegSend == \E size \in SendSizes(1) : j1939_sk_sendmsg(1, NullAddr, size)

NextSeg == SegBind \/ SegConnect \/ SegSend \/ SessionDone

SpecSeg == Init /\ [][NextSeg]_vars

\* The last handler was a segmented send that passed the tests of sendmsg,
\* by an endpoint that was mid-datagram, of a size that is not the balance.
MismatchedSend ==
    /\ last.op = "sendmsg"
    /\ last.arg.size > 8
    /\ LET j == last.pre.jsk[last.sk]
       IN /\ SendmsgChecks(j, last.arg.msg) = "0"
          /\ last.pre.rx_kref[j.ifindex] > 0
          /\ j.etp_tx_done_size > 0
          /\ j.etp_tx_done_size + last.arg.size # j.etp_tx_complete_size

RefBindAddrs == { SockAddr(1, 0, 16, 262144), SockAddr(1, 5, 32, 262144),
                  SockAddr(2, 0, 16, 262144), SockAddr(3, 0, 16, 262144) }

RefBind == \E a \in RefBindAddrs : j1939_sk_bind(1, a)

RefSend == \E m \in {NullAddr, SockAddr(0, 0, 32, 262144)} :
              j1939_sk_sendmsg(1, m, 5)

RefSetBroadcast == \E on \in BOOLEAN : sock_set_broadcast(1, on)

RefRelease == j1939_sk_release(1, FALSE)

NextRefs == RefBind \/ RefSend \/ RefSetBroadcast \/ RefRelease

SpecRefs == Init /\ [][NextRefs]_vars

\* C21: bind, send and release put every temporary reference on the network
\* device and on the J1939 instance that they took, on every return path:
\* when the handler has returned none is outstanding.
C21_TemporaryRefsReleased ==
    last.op \in {"bind", "sendmsg", "release"} => last.refs = NoRefs


(***************************************************************************)
(* The handlers lock by lock.  The endpoint mutex is lock_sock /            *)
(* release_sock on the endpoint's struct sock, the registry lock is         *)
(* priv->j1939_socks_lock of the interface.  A thread that calls a handler  *)
(* waits for the handler's outer lock, runs the handler's body under it,    *)
(* waits for the inner lock when the body goes on to edit the endpoint      *)
(* list, edits the list and drops the inner lock, and drops the outer lock  *)
(* when it returns.                                                         *)
(***************************************************************************)
SockLock(e) == <<"sk_lock", e>>

RegLock(i) == <<"j1939_socks_lock", i>>

IsSockLock(l) == l # << >> /\ l[1] = "sk_lock"

IsRegLock(l) == l # << >> /\ l[1] = "j1939_socks_lock"

\* the variant in which bind and release take the registry lock first
LockPlan_RegistryFirst(op, e, i) ==
    IF op \in {"bind", "release"} THEN << RegLock(i), SockLock(e) >>
    ELSE IF op \in {"connect", "setsockopt"} THEN << SockLock(e) >>
    ELSE << RegLock(i) >>

\* The locks a handler takes, outermost first: bind 277 and 326, release 437
\* and 449, connect 353, setsockopt 479, j1939_sk_recv 220,
\* j1939_sk_netdev_event 1024.
LockPlan(op, e, i) ==
    IF op \in {"bind", "release"} THEN << SockLock(e), RegLock(i) >>
    ELSE IF op \in {"connect", "setsockopt"} THEN << SockLock(e) >>
    ELSE << RegLock(i) >>

HeldBy(t) == { thr.lk[t].held[k] : k \in 1..Len(thr.lk[t].held) }

LockFree(l) == \A t \in Threads : l \notin HeldBy(t)

\* no handler is under way on endpoint e
Quiet(e) == \A t \in Threads : thr.lk[t].sk # e

\* A thread enters a handler on endpoint e or interface i.  The socket layer
\* calls release once, when no other call on the endpoint is under way, and
\* calls nothing on the endpoint afterwards.
LockCall(t, op, e, i, arg) ==
    /\ thr.lk[t].pc = "idle"
    /\ e # 0 => jsk[e].alive
    /\ e # 0 => \A u \in Threads : ~(thr.lk[u].sk = e /\ thr.lk[u].op = "release")
    /\ op = "release" => Quiet(e)
    /\ op = "netdev_event" => nfault < MaxFaults
    /\ thr' = [thr EXCEPT !.lk[t] =
                 [IdleThread EXCEPT !.pc = "outer", !.op = op, !.sk = e,
                                    !.ifx = i, !.arg = arg,
                                    !.want = LockPlan(op, e, i)[1]]]
    /\ UNCHANGED <<jsk, socks, ecu, rx_kref, nfault, rcvq, engine, last>>

\* lock_sock or spin_lock_bh returns: the lock was free
LockAcquire(t) ==
    /\ thr.lk[t].pc \in {"outer", "inner"}
    /\ LockFree(thr.lk[t].want)
    /\ thr' = [thr EXCEPT !.lk[t].held = Append(@, thr.lk[t].want),
                          !.lk[t].want = << >>,
                          !.lk[t].pc = IF thr.lk[t].pc = "outer"
                                       THEN "body" ELSE "edit"]
    /\ UNCHANGED <<jsk, socks, ecu, rx_kref, nfault, rcvq, engine, last>>

\* after the body: on to the inner lock, or to the return
AfterBody(t, inner) ==
    thr' = [thr EXCEPT
              !.lk[t].pc = IF inner THEN "inner" ELSE "exit",
              !.lk[t].want = IF inner
                             THEN LockPlan(thr.lk[t].op, thr.lk[t].sk,
                                           thr.lk[t].ifx)[2]
                             ELSE << >>]

\* bind, lines 279-323: all of the handler but the list edit and the BOUND
\* flag, which follow under the registry lock when the endpoint attaches
LockBindBody(t) ==
    /\ thr.lk[t].pc = "body" /\ thr.lk[t].op = "bind"
    /\ LET e == thr.lk[t].sk IN
       \E r \in {BindResult(e, thr.lk[t].arg, o[1], o[2]) : o \in BindOutcomes} :
          /\ r.nfault <= MaxFaults
          /\ jsk' = [jsk EXCEPT ![e] = [r.j EXCEPT !.state = jsk[e].state]]
          /\ ecu' = r.ecu
          /\ rx_kref' = r.rx_kref
          /\ nfault' = r.nfault
          /\ AfterBody(t, r.socks # socks)
    /\ UNCHANGED <<socks, rcvq, engine, last>>

\* bind, lines 326-330
LockBindEdit(t) ==
    /\ thr.lk[t].pc = "edit" /\ thr.lk[t].op = "bind"
    /\ LET e == thr.lk[t].sk IN
          /\ socks' = [socks EXCEPT ![thr.lk[t].ifx] = list_add_tail(@, e)]
          /\ jsk' = [jsk EXCEPT ![e].state = @ \cup {J1939_SOCK_BOUND}]
    /\ thr' = [thr EXCEPT !.lk[t].pc = "exit",
                          !.lk[t].held = SubSeq(@, 1, Len(@) - 1)]
    /\ UNCHANGED <<ecu, rx_kref, nfault, rcvq, engine, last>>

\* connect, lines 355-381
LockConnectBody(t) ==
    /\ thr.lk[t].pc = "body" /\ thr.lk[t].op = "connect"
    /\ LET e == thr.lk[t].sk
           r == ConnectResult(jsk[e], thr.lk[t].arg)
       IN /\ jsk' = [jsk EXCEPT ![e] = r.j]
          /\ AfterBody(t, FALSE)
    /\ UNCHANGED <<socks, ecu, rx_kref, nfault, rcvq, engine, last>>

\* j1939_sk_setsockopt_flag, lines 480-483, for SO_J1939_PROMISC
LockSetsockoptBody(t) ==
    /\ thr.lk[t].pc = "body" /\ thr.lk[t].op = "setsockopt"
    /\ LET e == thr.lk[t].sk IN
          /\ jsk' = [jsk EXCEPT ![e].state =
                        SetFlag(@, thr.lk[t].arg, J1939_SOCK_PROMISC)]
          /\ AfterBody(t, FALSE)
    /\ UNCHANGED <<socks, ecu, rx_kref, nfault, rcvq, engine, last>>

\* release, lines 439-447: a BOUND endpoint waits for its pending counter
\* and goes on to leave the list
LockReleaseBody(t) ==
    /\ thr.lk[t].pc = "body" /\ thr.lk[t].op = "release"
    /\ LET j == jsk[thr.lk[t].sk] IN
          /\ J1939_SOCK_BOUND \in j.state => j.skb_pending = 0
          /\ AfterBody(t, J1939_SOCK_BOUND \in j.state)
    /\ UNCHANGED <<jsk, socks, ecu, rx_kref, nfault, rcvq, engine, last>>

\* release, lines 449-458
LockReleaseEdit(t) ==
    /\ thr.lk[t].pc = "edit" /\ thr.lk[t].op = "release"
    /\ LET e == thr.lk[t].sk
           j == jsk[e]
       IN /\ socks' = [socks EXCEPT ![j.ifindex] = list_del_init(@, e)]
          /\ ecu' = j1939_local_ecu_put(ecu, e,
                                        EcuKey(j.ifindex, j.src_name, j.sa))
          /\ rx_kref' = j1939_netdev_stop(rx_kref, j.ifindex)
    /\ thr' = [thr EXCEPT !.lk[t].pc = "exit",
                          !.lk[t].held = SubSeq(@, 1, Len(@) - 1)]
    /\ UNCHANGED <<jsk, nfault, rcvq, engine, last>>

\* j1939_sk_recv, lines 221-223: the walk, under the registry lock.
\* j1939_sk_recv_one takes no endpoint mutex: sock_queue_rcv_skb has the
\* receive queue's own lock.
LockRecvBody(t) ==
    /\ thr.lk[t].pc = "body" /\ thr.lk[t].op = "recv"
    /\ \E q \in {RecvWalk(socks[thr.lk[t].ifx], rcvq, thr.lk[t].arg, n) :
                    n \in SUBSET Socks} : rcvq' = q
    /\ AfterBody(t, FALSE)
    /\ UNCHANGED <<jsk, socks, ecu, rx_kref, nfault, engine, last>>

\* j1939_sk_netdev_event, lines 1025-1037: the walk, under the registry
\* lock; sk_error_report takes no endpoint mutex
LockNetdevBody(t) ==
    /\ thr.lk[t].pc = "body" /\ thr.lk[t].op = "netdev_event"
    /\ LET r == NetdevWalk(socks[thr.lk[t].ifx], thr.lk[t].ifx, thr.lk[t].arg,
                           [jsk |-> jsk, ecu |-> ecu, rx_kref |-> rx_kref])
       IN /\ jsk' = r.jsk
          /\ ecu' = r.ecu
          /\ rx_kref' = r.rx_kref
    /\ nfault' = nfault + 1
    /\ AfterBody(t, FALSE)
    /\ UNCHANGED <<socks, rcvq, engine, last>>

\* release_sock or spin_unlock_bh of the outer lock, and the return; release
\* orphans and puts the socket (lines 460-465)
LockReturn(t) ==
    /\ thr.lk[t].pc = "exit"
    /\ LET e == thr.lk[t].sk IN
       IF thr.lk[t].op = "release"
       THEN /\ jsk' = [jsk EXCEPT ![e] = FreedSock(@)]
            /\ rcvq' = [rcvq EXCEPT ![e] = << >>]
       ELSE UNCHANGED <<jsk, rcvq>>
    /\ thr' = [thr EXCEPT !.lk[t] = IdleThread]
    /\ UNCHANGED <<socks, ecu, rx_kref, nfault, engine, last>>

(***************************************************************************)
(* The specification of the locks: two threads that call bind, connect,    *)
(* SO_J1939_PROMISC and release on two endpoints of interface 1, while     *)
(* frames and netdev events arrive on it.                                  *)
(***************************************************************************)
LockFrame == Skb(1, 262143, <<0, 48>>, <<0, 16>>, 0, {})

LockCalls ==
    { [op |-> "bind", e |-> e, arg |-> SockAddr(1, 0, 16, 262144)] :
         e \in Socks }
      \cup { [op |-> "connect", e |-> 1, arg |-> SockAddr(1, 0, 48, 262144)],
             [op |-> "setsockopt", e |-> 1, arg |-> 1],
             [op |-> "recv", e |-> 0, arg |-> LockFrame],
             [op |-> "netdev_event", e |-> 0, arg |-> "ENETDOWN"] }
      \cup { [op |-> "release", e |-> e, arg |-> << >>] : e \in Socks }

LCall == \E t \in Threads, c \in LockCalls : LockCall(t, c.op, c.e, 1, c.arg)

LAcquire == \E t \in Threads : LockAcquire(t)

LBody == \E t \in Threads :
            \/ LockBindBody(t)
            \/ LockConnectBody(t)
            \/ LockSetsockoptBody(t)
            \/ LockReleaseBody(t)
            \/ LockRecvBody(t)
            \/ LockNetdevBody(t)

LEdit == \E t \in Threads : LockBindEdit(t) \/ LockReleaseEdit(t)

LReturn == \E t \in Threads : LockReturn(t)

NextLock == LCall \/ LAcquire \/ LBody \/ LEdit \/ LReturn

SpecLock == Init /\ [][NextLock]_vars

\* thread t waits for a lock that thread u holds
WaitsFor(t, u) == thr.lk[t].want # << >> /\ thr.lk[t].want \in HeldBy(u)

\* C22: no thread takes or waits for an endpoint mutex while it holds a
\* registry lock; a registry lock is taken with no lock held or with
\* endpoint mutexes only; and no two threads wait for each other's locks.
C22_LockOrder ==
    /\ \A t \in Threads :
          /\ \A k \in 1..Len(thr.lk[t].held) :
                IsSockLock(thr.lk[t].held[k])
                   => \A m \in 1..(k - 1) : ~IsRegLock(thr.lk[t].held[m])
          /\ IsSockLock(thr.lk[t].want)
                => \A l \in HeldBy(t) : ~IsRegLock(l)
          /\ IsRegLock(thr.lk[t].want)
                => \A l \in HeldBy(t) : IsSockLock(l)
    /\ \A t, u \in Threads : ~(t # u /\ WaitsFor(t, u) /\ WaitsFor(u, t))

\* thread 1, in bind, holds the mutex of endpoint 1 and the registry lock
\* while thread 2 waits for the registry lock
C22_Witness ==
    /\ thr.lk[1].op = "bind"
    /\ thr.lk[1].held = << SockLock(1), RegLock(1) >>
    /\ thr.lk[2].want = RegLock(1)


(***************************************************************************)
(* The specification of the inbound order: two endpoints bound to address  *)
(* 0x10 of interface 1 with room for one more frame in their receive       *)
(* buffers, frames to that address, and the endpoints reading.  A fan-out  *)
(* runs under the registry lock from its first endpoint to its last        *)
(* (lines 220-224), so the fan-outs of concurrent callers follow one        *)
(* another; seq is the position of a frame's fan-out in that order.         *)
(***************************************************************************)
SkbSeq(skb, k) ==
    [f \in DOMAIN skb \cup {"seq"} |-> IF f = "seq" THEN k ELSE skb[f]]

\* j1939_sk_recv of the next frame
j1939_sk_recv_nth(ifx, oskb) ==
    /\ thr.rxseq < MaxFrames
    /\ LET f == SkbSeq(oskb, thr.rxseq + 1) IN
          /\ \E q \in {RecvWalk(socks[ifx], rcvq, f, n) : n \in SUBSET Socks} :
                rcvq' = q
          /\ last' = Record("recv", 0, f, OK(0))
    /\ thr' = [thr EXCEPT !.rxseq = @ + 1]
    /\ UNCHANGED <<jsk, socks, ecu, rx_kref, nfault, engine>>

\* sock_setsockopt(SOL_SOCKET, SO_RCVBUF): the receive buffer of the socket
sock_set_rcvbuf(e, val) ==
    /\ jsk[e].alive
    /\ jsk' = [jsk EXCEPT ![e].sk_rcvbuf = val]
    /\ last' = Record("so_rcvbuf", e, val, OK(0))
    /\ UNCHANGED <<socks, ecu, rx_kref, nfault, rcvq, engine, thr>>

OrdFrames ==
    { Skb(1, 262143, <<0, s>>, <<0, 16>>, 0, {}) : s \in {48, 64} }

OrdSetRcvBuf == \E e \in Socks :
                   /\ jsk[e].sk_rcvbuf = MaxRcvQ
                   /\ sock_set_rcvbuf(e, MaxRcvQ + 1)

OrdRecv == \E f \in OrdFrames : j1939_sk_recv_nth(1, f)

NextOrder == OBind \/ OrdSetRcvBuf \/ OrdRecv \/ ORecvMsg

SpecOrder == Init /\ [][NextOrder]_vars

\* C23: of two frames that were fanned out on the interface one after the
\* other, every endpoint that holds both holds the earlier one before the
\* later one, so two endpoints that hold the same two frames hold them in
\* the same order; and recvmsg takes the frame at the head of the
\* endpoint's queue and leaves the rest in order.
C23_InboundOrder ==
    /\ \A e \in Socks :
          \A a, b \in 1..Len(rcvq[e]) :
             a < b => rcvq[e][a].seq < rcvq[e][b].seq
    /\ \A e1, e2 \in Socks :
          \A a1, b1 \in 1..Len(rcvq[e1]), a2, b2 \in 1..Len(rcvq[e2]) :
             (/\ rcvq[e1][a1].seq = rcvq[e2][a2].seq
              /\ rcvq[e1][b1].seq = rcvq[e2][b2].seq)
                => ((a1 < b1) <=> (a2 < b2))
    /\ last.op = "recvmsg" =>
          /\ last.arg = Head(last.pre.rcvq[last.sk])
          /\ rcvq[last.sk] = Tail(last.pre.rcvq[last.sk])

\* both endpoints hold the same two frames
C23_Witness ==
    /\ Len(rcvq[1]) = 2
    /\ Len(rcvq[2]) = 2
    /\ rcvq[1][1].seq = rcvq[2][1].seq
    /\ rcvq[1][2].seq = rcvq[2][2].seq


\* C24: a bind that returns an error leaves the endpoint as it was before
\* the call: its fields (interface index, source NAME, source address, PGN
\* receive filter, state flags), the registries and the local-ECU claims,
\* for a first bind and for a rebind of a BOUND endpoint.
C24_FailedBindChangesNothing ==
    (last.op = "bind" /\ last.ret.err # "OK") =>
        /\ jsk[last.sk] = last.pre.jsk[last.sk]
        /\ socks = last.pre.socks
        /\ ecu = last.pre.ecu

====
